---- MODULE Spec2Model ----
(***************************************************************************)
(* poke-http: the variable substitutor (src/variable.rs), the session      *)
(* state and key dispatcher (src/tui/app.rs, src/tui/events.rs), and the   *)
(* session loop with its transport boundary (src/tui/mod.rs,               *)
(* src/client.rs).                                                         *)
(*                                                                         *)
(* Text is a sequence of one-character strings.  Option<T> is a sequence   *)
(* of length 0 (None) or 1 (Some).                                         *)
(***************************************************************************)
EXTENDS Integers, Sequences, FiniteSets, TLC

VARIABLES
    app,          \* the App of tui::run
    pc,           \* tui::run: "idle" | "poll" | "await" | "quit"
    in_flight,    \* execute_request across its await: Option<[request, timestamp]>
    area_height,  \* height of the request details area the terminal gives render
    key_queue,    \* the keys the terminal holds for poll_event, oldest first
    clock,        \* SystemTime::now()
    net_sent,     \* the requests handed to the network so far, in order
    net_pending,  \* the sends the network has not answered yet
    net_replies,  \* the answers of the network so far, in order
    sub_text,     \* substitute: the `text` argument
    sub_vars,     \* substitute: the `variables` argument
    sub_out,      \* substitute: the returned Result<String>
    sub_pc,       \* "idle" | "call" | "done"
    content,      \* parse_content: content.lines(), the lines of the file
    line_no,      \* parse_content: the number of lines the loop has taken
    parser,       \* parse_content: requests, variables, current_name,
                  \* current_request
    parse_out,    \* parse_content: the returned Result
    parse_pc      \* "idle" | "loop" | "done"

session_state ==
    <<app, pc, in_flight, area_height, key_queue, clock, net_sent, net_pending,
      net_replies>>

sub_state == <<sub_text, sub_vars, sub_out, sub_pc>>

parse_state == <<content, line_no, parser, parse_out, parse_pc>>

vars == <<session_state, sub_state, parse_state>>

None == <<>>
Some(x) == <<x>>

Ok(x) == [ok |-> TRUE, val |-> x]
Err(e) == [ok |-> FALSE, err |-> e]

(***************************************************************************)
(* Bounds of the model.                                                    *)
(***************************************************************************)
MaxPieces == 4
MaxHistory == 2
MaxScroll == 1
MaxFilterLen == 1
MaxAreaHeight == 5
MaxQueue == 1
MaxLines == 4

\* u16::MAX, where the saturating scroll offsets stop.
U16Max == 65535

(***************************************************************************)
(* Characters.  \w of the regex crate is a Unicode word character; of the  *)
(* characters the model uses, letters and digits are, braces, '-', '/',    *)
(* ':' and ' ' are not.                                                    *)
(***************************************************************************)
WordChars == {"a", "b", "h", "j", "k", "x", "A", "B", "H", "1", "2"}

IsWordChar(c) == c \in WordChars

(***************************************************************************)
(* src/variable.rs                                                         *)
(***************************************************************************)

\* The end of the longest run of word characters that starts at j
\* (j - 1 when text[j] is no word character): the greedy \w+ .
RECURSIVE WordRunEnd(_, _)
WordRunEnd(text, j) ==
    IF j <= Len(text) /\ IsWordChar(text[j])
    THEN WordRunEnd(text, j + 1)
    ELSE j - 1

RECURSIVE NonBraceRunEnd(_, _)
NonBraceRunEnd(text, j) ==
    IF j <= Len(text) /\ text[j] \notin {"{", "}"}
    THEN NonBraceRunEnd(text, j + 1)
    ELSE j - 1

\* The pattern \{\{([^{}]+)\}\} in place of \{\{(\w+)\}\}.
MatchAtAnyName(text, i) ==
    IF i + 4 <= Len(text) /\ text[i] = "{" /\ text[i + 1] = "{"
    THEN LET e == NonBraceRunEnd(text, i + 2)
         IN  IF e >= i + 2 /\ e + 2 <= Len(text)
                /\ text[e + 1] = "}" /\ text[e + 2] = "}"
             THEN e + 2
             ELSE 0
    ELSE 0

\* The regex \{\{(\w+)\}\} anchored at i: the index of the last character of
\* the match, or 0 when there is no match at i.
MatchAt(text, i) ==
    IF i + 4 <= Len(text) /\ text[i] = "{" /\ text[i + 1] = "{"
    THEN LET e == WordRunEnd(text, i + 2)
         IN  IF e >= i + 2 /\ e + 2 <= Len(text)
                /\ text[e + 1] = "}" /\ text[e + 2] = "}"
             THEN e + 2
             ELSE 0
    ELSE 0

\* re.captures_iter(text): the leftmost non-overlapping matches, in order.
\* full is cap[0], name is cap[1].
RECURSIVE CapturesFrom(_, _)
CapturesFrom(text, i) ==
    IF i > Len(text) THEN <<>>
    ELSE LET e == MatchAt(text, i)
         IN  IF e = 0 THEN CapturesFrom(text, i + 1)
             ELSE <<[start |-> i,
                     full  |-> SubSeq(text, i, e),
                     name  |-> SubSeq(text, i + 2, e - 2)]>>
                  \o CapturesFrom(text, e + 1)

captures_iter(text) == CapturesFrom(text, 1)

StartsWithAt(s, i, pat) ==
    /\ i + Len(pat) - 1 <= Len(s)
    /\ \A k \in 1..Len(pat) : s[i + k - 1] = pat[k]

\* str::contains
contains(s, pat) == \E i \in 1..(Len(s) + 1) : StartsWithAt(s, i, pat)

\* str::replace(from, to): every non-overlapping occurrence of a non-empty
\* pattern, scanning left to right.
RECURSIVE ReplaceFrom(_, _, _, _)
ReplaceFrom(s, i, from, to) ==
    IF i > Len(s) THEN <<>>
    ELSE IF StartsWithAt(s, i, from)
         THEN to \o ReplaceFrom(s, i + Len(from), from, to)
         ELSE <<s[i]>> \o ReplaceFrom(s, i + 1, from, to)

str_replace(s, from, to) == ReplaceFrom(s, 1, from, to)

UndefinedVariable(name) == [kind |-> "UndefinedVariable", name |-> name]

\* The loop of substitute that skips an unbound token instead of returning.
RECURSIVE SubstituteLoopLenient(_, _, _, _)
SubstituteLoopLenient(caps, k, result, variables) ==
    IF k > Len(caps) THEN Ok(result)
    ELSE IF caps[k].name \notin DOMAIN variables
         THEN SubstituteLoopLenient(caps, k + 1, result, variables)
         ELSE SubstituteLoopLenient(caps, k + 1,
                  str_replace(result, caps[k].full, variables[caps[k].name]),
                  variables)

\* The loop of substitute from its k-th capture on, `result` being the text
\* so far: an unbound name returns the error at once (the `?`).
RECURSIVE SubstituteLoop(_, _, _, _)
SubstituteLoop(caps, k, result, variables) ==
    IF k > Len(caps) THEN Ok(result)
    ELSE IF caps[k].name \notin DOMAIN variables
         THEN Err(UndefinedVariable(caps[k].name))
         ELSE SubstituteLoop(caps, k + 1,
                  str_replace(result, caps[k].full, variables[caps[k].name]),
                  variables)

substitute(text, variables) ==
    SubstituteLoop(captures_iter(text), 1, text, variables)

(***************************************************************************)
(* Inputs of substitute: a text is a concatenation of at most MaxPieces    *)
(* pieces, a table binds each of the names a, b to a value or leaves it    *)
(* unbound.                                                                *)
(***************************************************************************)
TokA == <<"{", "{", "a", "}", "}">>
TokB == <<"{", "{", "b", "}", "}">>

TokDash == <<"{", "{", "-", "}", "}">>

Pieces == {TokA, TokB, TokDash, <<"{">>, <<"}">>, <<"a">>, <<"-">>}

RECURSIVE TextsUpTo(_)
TextsUpTo(n) ==
    IF n = 0 THEN {<<>>}
    ELSE LET shorter == TextsUpTo(n - 1)
         IN  shorter \cup {t \o p : t \in shorter, p \in Pieces}

Texts == TextsUpTo(MaxPieces)

VarNames == {<<"a">>, <<"b">>}

VarValues == {<<"1">>, TokB, TokA \o <<"1">>}

Tables == UNION {[D -> VarValues] : D \in SUBSET VarNames}

(***************************************************************************)
(* src/http/request.rs: Request and HttpFile.  headers and variables are   *)
(* HashMaps: functions from their key set.                                 *)
(***************************************************************************)
Request(name, method, url, headers, body) ==
    [name |-> name, method |-> method, url |-> url, headers |-> headers,
     body |-> body]

NoHeaders == [k \in {} |-> <<>>]

TokX == <<"{", "{", "x", "}", "}">>

\* The file of the session:
\*   @a = 1
\*   @b = 2
\*   GET h/{{a}}
\*   ### Hb
\*   POST b
\*   k: {{b}}
\*
\*   {{a}}{{x}}
TheRequests ==
    << Request(None, "GET", <<"h", "/">> \o TokA, NoHeaders, None),
       Request(Some(<<"H", "b">>), "POST", <<"b">>,
               [k \in {<<"k">>} |-> TokB], Some(TokA \o TokX)) >>

TheVariables == [n \in VarNames |-> IF n = <<"a">> THEN <<"1">> ELSE <<"2">>]

TheFile == [requests |-> TheRequests, variables |-> TheVariables]

(***************************************************************************)
(* src/http/parser.rs.  A line is a text; the file is the sequence of the  *)
(* lines content.lines() yields.                                           *)
(***************************************************************************)
\* char::is_whitespace, on the characters of the model
Whitespace == {" ", "\t", "\n"}

RECURSIVE trim_end(_)
trim_end(s) ==
    IF s = <<>> \/ s[Len(s)] \notin Whitespace THEN s
    ELSE trim_end(SubSeq(s, 1, Len(s) - 1))

RECURSIVE trim_start(_)
trim_start(s) ==
    IF s = <<>> \/ s[1] \notin Whitespace THEN s
    ELSE trim_start(Tail(s))

trim(s) == trim_end(trim_start(s))

RECURSIVE trim_start_matches(_, _)
trim_start_matches(s, c) ==
    IF s = <<>> \/ s[1] # c THEN s
    ELSE trim_start_matches(Tail(s), c)

starts_with(s, pat) == StartsWithAt(s, 1, pat)

\* str::find of a character: the 0-based index of its first occurrence
find(s, c) ==
    IF \E i \in 1..Len(s) : s[i] = c
    THEN Some((CHOOSE i \in 1..Len(s) :
                  s[i] = c /\ \A j \in 1..(i - 1) : s[j] # c) - 1)
    ELSE None

\* The end of the run of non-whitespace characters that starts at j.
RECURSIVE TokenEnd(_, _)
TokenEnd(s, j) ==
    IF j <= Len(s) /\ s[j] \notin Whitespace THEN TokenEnd(s, j + 1) ELSE j

RECURSIVE SplitFrom(_, _)
SplitFrom(s, i) ==
    IF i > Len(s) THEN <<>>
    ELSE IF s[i] \in Whitespace THEN SplitFrom(s, i + 1)
    ELSE LET e == TokenEnd(s, i)
         IN  <<SubSeq(s, i, e - 1)>> \o SplitFrom(s, e)

split_whitespace(s) == SplitFrom(s, 1)

\* char::to_uppercase, on the letters of the model
Upper(c) ==
    CASE c = "a" -> "A" [] c = "c" -> "C" [] c = "d" -> "D"
      [] c = "e" -> "E" [] c = "g" -> "G" [] c = "h" -> "H"
      [] c = "i" -> "I" [] c = "l" -> "L" [] c = "n" -> "N"
      [] c = "o" -> "O" [] c = "p" -> "P" [] c = "s" -> "S"
      [] c = "t" -> "T" [] c = "u" -> "U"
      [] OTHER -> c

to_uppercase(s) == [i \in 1..Len(s) |-> Upper(s[i])]

InvalidMethod(s) == [kind |-> "InvalidMethod", text |-> s]

\* <Method as FromStr>::from_str; a Method is written as Display writes it.
from_str(s) ==
    LET u == to_uppercase(s)
    IN  CASE u = <<"G", "E", "T">> -> Ok("GET")
          [] u = <<"P", "O", "S", "T">> -> Ok("POST")
          [] u = <<"P", "U", "T">> -> Ok("PUT")
          [] u = <<"P", "A", "T", "C", "H">> -> Ok("PATCH")
          [] u = <<"D", "E", "L", "E", "T", "E">> -> Ok("DELETE")
          [] u = <<"H", "E", "A", "D">> -> Ok("HEAD")
          [] u = <<"O", "P", "T", "I", "O", "N", "S">> -> Ok("OPTIONS")
          [] OTHER -> Err(InvalidMethod(s))

\* Parser::try_parse_variable: Option<(name, value)>
try_parse_variable(line) ==
    IF ~starts_with(line, <<"@">>) THEN None
    ELSE LET rest == Tail(line)
             eq_pos == find(rest, "=")
         IN  IF eq_pos = None THEN None
             ELSE LET name == trim(SubSeq(rest, 1, eq_pos[1]))
                      value == trim(SubSeq(rest, eq_pos[1] + 2, Len(rest)))
                  IN  IF name = <<>> THEN None ELSE Some(<<name, value>>)

RequestBuilder(name, method, url) ==
    [name |-> name, method |-> method, url |-> url, headers |-> <<>>,
     body_lines |-> <<>>, headers_done |-> FALSE]

\* try_parse_request_line that fails on a first token that is no method.
try_parse_request_line_strict(line, name) ==
    LET parts == split_whitespace(line)
    IN  IF Len(parts) < 2 THEN Ok(None)
        ELSE LET method == from_str(parts[1])
             IN  IF ~method.ok THEN method
                 ELSE Ok(Some(RequestBuilder(name, method.val, parts[2])))

\* try_parse_request_line that takes the last token as the URL.
try_parse_request_line_last(line, name) ==
    LET parts == split_whitespace(line)
    IN  IF Len(parts) < 2 THEN Ok(None)
        ELSE LET method == from_str(parts[1])
             IN  IF ~method.ok THEN Ok(None)
                 ELSE Ok(Some(RequestBuilder(name, method.val,
                                             parts[Len(parts)])))

\* Parser::try_parse_request_line: Result<Option<RequestBuilder>>
try_parse_request_line(line, name) ==
    LET parts == split_whitespace(line)
    IN  IF Len(parts) < 2 THEN Ok(None)
        ELSE LET method == from_str(parts[1])
             IN  IF ~method.ok THEN Ok(None)
                 ELSE Ok(Some(RequestBuilder(name, method.val, parts[2])))

\* Parser::try_parse_header: Option<(key, value)>
try_parse_header(line) ==
    LET colon_pos == find(line, ":")
    IN  IF colon_pos = None THEN None
        ELSE LET key == trim(SubSeq(line, 1, colon_pos[1]))
                 value == trim(SubSeq(line, colon_pos[1] + 2, Len(line)))
             IN  IF contains(key, <<" ">>) THEN None
                 ELSE Some(<<key, value>>)

\* HashMap::insert that keeps the value of a key the map already has.
insert_keep(map, k, v) ==
    [x \in (DOMAIN map) \cup {k} |-> IF x \in DOMAIN map THEN map[x] ELSE v]

\* HashMap::insert
insert(map, k, v) ==
    [x \in (DOMAIN map) \cup {k} |-> IF x = k THEN v ELSE map[x]]

RECURSIVE InsertAll(_, _, _)
InsertAll(map, pairs, i) ==
    IF i > Len(pairs) THEN map
    ELSE InsertAll(insert(map, pairs[i][1], pairs[i][2]), pairs, i + 1)

\* [String]::join("\n")
RECURSIVE join(_)
join(lines) ==
    IF lines = <<>> THEN <<>>
    ELSE IF Len(lines) = 1 THEN lines[1]
    ELSE lines[1] \o <<"\n">> \o join(Tail(lines))

\* RequestBuilder::build that leaves the joined body as it is.
build_untrimmed(builder) ==
    LET body == join(builder.body_lines)
    IN  Ok(Request(builder.name, builder.method, builder.url,
                   InsertAll(NoHeaders, builder.headers, 1),
                   IF body # <<>> THEN Some(body) ELSE None))

\* RequestBuilder::build: Result<Request>
build(builder) ==
    LET body == trim(join(builder.body_lines))
    IN  Ok(Request(builder.name, builder.method, builder.url,
                   InsertAll(NoHeaders, builder.headers, 1),
                   IF body # <<>> THEN Some(body) ELSE None))

\* The locals of parse_content before its loop.
ParserNew ==
    [requests |-> <<>>, variables |-> NoHeaders, current_name |-> None,
     current_request |-> None, error |-> None]

\* The `###` arm of the loop: the open request is built and pushed, the
\* name of the line is kept for the next request.
separator_line(st, line) ==
    LET built == IF st.current_request = None THEN None
                 ELSE Some(build(st.current_request[1]))
        name == trim(trim_start_matches(line, "#"))
        named == [st EXCEPT !.current_request = None,
                            !.current_name =
                                IF name = <<>> THEN None ELSE Some(name)]
    IN  IF built = None THEN named
        ELSE IF ~built[1].ok THEN [st EXCEPT !.current_request = None,
                                             !.error = Some(built[1].err)]
        ELSE [named EXCEPT !.requests = Append(st.requests, built[1].val)]

\* The arm of an empty line.
blank_line(st) ==
    IF st.current_request = None THEN st
    ELSE IF st.current_request[1].headers_done
    THEN [st EXCEPT !.current_request[1].body_lines = Append(@, <<>>)]
    ELSE [st EXCEPT !.current_request[1].headers_done = TRUE]

\* The last arm with every line of the form `key: value` taken as a header,
\* whether the headers are done or not.
request_content_line_always_headers(st, line) ==
    IF st.current_request = None THEN st
    ELSE LET header == try_parse_header(line)
         IN  IF header # None
             THEN [st EXCEPT !.current_request[1].headers =
                                 Append(@, header[1])]
             ELSE [st EXCEPT !.current_request[1].headers_done = TRUE,
                             !.current_request[1].body_lines =
                                 Append(@, line)]

\* The last arm of the loop: a line of the open request is a header while
\* the headers last, a body line after.
request_content_line(st, line) ==
    IF st.current_request = None THEN st
    ELSE LET builder == st.current_request[1]
             header == IF builder.headers_done THEN None
                       ELSE try_parse_header(line)
         IN  IF header # None
             THEN [st EXCEPT !.current_request[1].headers =
                                 Append(@, header[1])]
             ELSE [st EXCEPT !.current_request[1].headers_done = TRUE,
                             !.current_request[1].body_lines =
                                 Append(@, line)]

\* The request-line arm that tries every line as a request line, and lets a
\* request line replace the request that is open.
request_line_reopens(st, line) ==
    LET taken == [st EXCEPT !.current_name = None]
        opened == try_parse_request_line(line, st.current_name)
    IN  IF ~opened.ok THEN [taken EXCEPT !.error = Some(opened.err)]
        ELSE IF opened.val # None
        THEN [taken EXCEPT !.current_request = opened.val]
        ELSE IF st.current_request # None
        THEN request_content_line(st, line)
        ELSE taken

\* The request-line arm: with no request open the line is tried as a request
\* line, and current_name.take() empties the name before the try.
request_line(st, line) ==
    IF st.current_request # None THEN request_content_line(st, line)
    ELSE LET taken == [st EXCEPT !.current_name = None]
             opened == try_parse_request_line(line, st.current_name)
         IN  IF ~opened.ok THEN [taken EXCEPT !.error = Some(opened.err)]
             ELSE IF opened.val # None
             THEN [taken EXCEPT !.current_request = opened.val]
             ELSE taken

\* The loop body with the variable rule applied only while no request is
\* open.
parse_line_variables_first_only(st, raw) ==
    LET line == trim_end(raw)
        variable == IF st.current_request = None
                    THEN try_parse_variable(line) ELSE None
    IN  IF variable # None
        THEN [st EXCEPT !.variables =
                            insert(@, variable[1][1], variable[1][2])]
        ELSE IF starts_with(line, <<"#", "#", "#">>)
        THEN separator_line(st, line)
        ELSE IF starts_with(line, <<"#">>) \/ starts_with(line, <<"/", "/">>)
        THEN st
        ELSE IF line = <<>> THEN blank_line(st)
        ELSE request_line(st, line)

\* The loop body with the comment rule applied only while no body is being
\* collected.
parse_line_comment_in_body(st, raw) ==
    LET line == trim_end(raw)
        variable == try_parse_variable(line)
        in_body == st.current_request # None
                       /\ st.current_request[1].headers_done
    IN  IF variable # None
        THEN [st EXCEPT !.variables =
                            insert(@, variable[1][1], variable[1][2])]
        ELSE IF starts_with(line, <<"#", "#", "#">>)
        THEN separator_line(st, line)
        ELSE IF ~in_body /\ (starts_with(line, <<"#">>)
                                \/ starts_with(line, <<"/", "/">>))
        THEN st
        ELSE IF line = <<>> THEN blank_line(st)
        ELSE request_line(st, line)

\* The body of the loop of parse_content, on one line.
parse_line(st, raw) ==
    LET line == trim_end(raw)
        variable == try_parse_variable(line)
    IN  IF variable # None
        THEN [st EXCEPT !.variables =
                            insert(@, variable[1][1], variable[1][2])]
        ELSE IF starts_with(line, <<"#", "#", "#">>)
        THEN separator_line(st, line)
        ELSE IF starts_with(line, <<"#">>) \/ starts_with(line, <<"/", "/">>)
        THEN st
        ELSE IF line = <<>> THEN blank_line(st)
        ELSE request_line(st, line)

\* parse_content after a loop that forgets the request still open.
parse_finish_forget(st) == [st EXCEPT !.current_request = None]

\* parse_content after its loop: the open request is built and pushed.
parse_finish(st) ==
    IF st.current_request = None THEN st
    ELSE LET built == build(st.current_request[1])
         IN  IF ~built.ok THEN [st EXCEPT !.current_request = None,
                                          !.error = Some(built.err)]
             ELSE [st EXCEPT !.current_request = None,
                             !.requests = Append(@, built.val)]

\* What parse_content returns from st.
parse_result(st) ==
    IF st.error # None THEN Err(st.error[1])
    ELSE Ok([requests |-> st.requests, variables |-> st.variables])

(***************************************************************************)
(* Inputs of parse_content: a file of at most MaxLines lines of Lines, or  *)
(* one of the single lines of RequestLineCases.                            *)
(***************************************************************************)
LVarA1 == <<"@", "a", " ", "=", " ", "1">>
LVarA2 == <<"@", "a", "=", "2">>
LSepN == <<"#", "#", "#", " ", "N", " ">>
LSep == <<"#", "#", "#">>
LComment == <<"#", " ", "c">>
LBlank == <<>>
LGet == <<"g", "e", "t", " ", "u", " ", "x">>
LPost == <<"P", "O", "S", "T", " ", "v">>
LJunk == <<" ", "j">>
LHdr1 == <<"K", ":", " ", "1">>
LHdr2 == <<"K", ":", "2">>
LHdrk == <<"k", " ", ":", "3">>
LSlash == <<"/", "/", "c">>
LBadHdr == <<"x", " ", "y", ":", "1">>
LBodyWs == <<" ", "j", " ">>
\* A request line with a tab between its tokens and a colon in its URL.
LTabReq == <<"G", "E", "T", "\t", "u", ":", "1">>

Lines ==
    {LVarA1, LVarA2, LSepN, LSep, LComment, LBlank, LGet, LPost, LJunk,
     LHdr1, LHdr2, LHdrk}

\* Single lines with the request the file of that line holds, if any.
RequestLineCases ==
    { [line |-> LGet, request |-> Some([method |-> "GET", url |-> <<"u">>])],
      [line |-> LPost, request |-> Some([method |-> "POST", url |-> <<"v">>])],
      [line |-> <<"P", "u", "t", " ", " ", "u">>,
       request |-> Some([method |-> "PUT", url |-> <<"u">>])],
      [line |-> <<"p", "a", "t", "c", "h", "\t", "v", " ">>,
       request |-> Some([method |-> "PATCH", url |-> <<"v">>])],
      [line |-> <<"D", "E", "L", "E", "T", "E", " ", "u">>,
       request |-> Some([method |-> "DELETE", url |-> <<"u">>])],
      [line |-> <<"h", "e", "a", "d", " ", "G", "E", "T">>,
       request |-> Some([method |-> "HEAD", url |-> <<"G", "E", "T">>])],
      [line |-> <<"O", "p", "t", "i", "o", "n", "s", " ", "u", " ", "v">>,
       request |-> Some([method |-> "OPTIONS", url |-> <<"u">>])],
      [line |-> LTabReq,
       request |-> Some([method |-> "GET", url |-> <<"u", ":", "1">>])],
      [line |-> <<"G", "E", "T">>, request |-> None],
      [line |-> <<"G", "E", "T", " ">>, request |-> None],
      [line |-> <<"F", "O", "O", " ", "u">>, request |-> None],
      [line |-> <<"u", " ", "G", "E", "T">>, request |-> None],
      [line |-> <<"G", "E", "T", "S", " ", "u">>, request |-> None],
      [line |-> LJunk, request |-> None],
      [line |-> LHdr1, request |-> None] }

\* The lines of the files about one request: its request line, and what a
\* header section and a body can hold.
RequestContentLines ==
    {LPost, LHdr1, LBadHdr, LBlank, LSlash, LBodyWs, LTabReq}

RECURSIVE FilesUpTo(_, _)
FilesUpTo(lines, n) ==
    IF n = 0 THEN {<<>>}
    ELSE LET shorter == FilesUpTo(lines, n - 1)
         IN  shorter \cup {Append(f, l) : f \in shorter, l \in lines}

Files ==
    FilesUpTo(Lines, MaxLines)
        \cup FilesUpTo(RequestContentLines, MaxLines)
        \cup {<<c.line>> : c \in RequestLineCases}

(***************************************************************************)
(* src/tui/app.rs                                                          *)
(***************************************************************************)
FocusValues ==
    {"RequestList", "ResponseBody", "RequestDetails", "VariablesList",
     "HistoryList", "HistoryDetail"}

\* App::new
AppNew(http_file) ==
    [http_file |-> http_file,
     selected |-> 0,
     selected_variable |-> 0,
     last_response |-> None,
     should_quit |-> FALSE,
     focus |-> "RequestList",
     response_scroll |-> 0,
     response_tab |-> "Body",
     headers_scroll |-> 0,
     request_details_scroll |-> 0,
     request_details_visible_height |-> 0,
     loading |-> FALSE,
     filter_text |-> <<>>,
     filter_active |-> FALSE,
     history |-> <<>>,
     history_view_active |-> FALSE,
     selected_history |-> 0,
     history_detail_scroll |-> 0]

\* usize::saturating_sub and u16::saturating_sub
saturating_sub(x, y) == IF x >= y THEN x - y ELSE 0

\* u16::saturating_add
saturating_add(x, y) == IF x + y <= U16Max THEN x + y ELSE U16Max

\* char::to_lowercase, on the characters of the model
Lower(c) ==
    CASE c = "A" -> "a"
      [] c = "B" -> "b"
      [] c = "H" -> "h"
      [] OTHER -> c

to_lowercase(s) == [i \in 1..Len(s) |-> Lower(s[i])]

\* Vec::get with a 0-based index
Get(seq, i) == IF i < Len(seq) THEN Some(seq[i + 1]) ELSE None

RequestMatches(req, filter_lower) ==
    LET name_matches ==
            IF req.name = None THEN FALSE
            ELSE contains(to_lowercase(req.name[1]), filter_lower)
        url_matches == contains(to_lowercase(req.url), filter_lower)
    IN  name_matches \/ url_matches

\* The 0-based indices idx of the (idx, request) pairs, in file order.
RECURSIVE MatchingFrom(_, _, _)
MatchingFrom(requests, i, filter_lower) ==
    IF i > Len(requests) THEN <<>>
    ELSE (IF RequestMatches(requests[i], filter_lower) THEN <<i - 1>> ELSE <<>>)
         \o MatchingFrom(requests, i + 1, filter_lower)

filtered_requests(a) ==
    IF ~a.filter_active \/ a.filter_text = <<>>
    THEN [i \in 1..Len(a.http_file.requests) |-> i - 1]
    ELSE MatchingFrom(a.http_file.requests, 1, to_lowercase(a.filter_text))

selected_request(a) ==
    IF a.filter_active
    THEN LET hit == Get(filtered_requests(a), a.selected)
         IN  IF hit = None THEN None
             ELSE Some(a.http_file.requests[hit[1] + 1])
    ELSE Get(a.http_file.requests, a.selected)

enter_filter_mode(a) == [a EXCEPT !.filter_active = TRUE, !.selected = 0]

\* exit_filter_mode that leaves the filter text in place.
exit_filter_mode_keep_text(a) ==
    [a EXCEPT !.filter_active = FALSE, !.selected = 0]

exit_filter_mode(a) ==
    [a EXCEPT !.filter_active = FALSE, !.filter_text = <<>>, !.selected = 0]

filter_append_char(a, c) ==
    [a EXCEPT !.filter_text = Append(@, c), !.selected = 0]

\* filter_backspace that leaves the selection where it is.
filter_backspace_keep_selection(a) ==
    [a EXCEPT !.filter_text = IF @ = <<>> THEN @ ELSE SubSeq(@, 1, Len(@) - 1)]

\* String::pop on an empty string does nothing.
filter_backspace(a) ==
    [a EXCEPT !.filter_text = IF @ = <<>> THEN @ ELSE SubSeq(@, 1, Len(@) - 1),
              !.selected = 0]

select_previous(a) ==
    IF a.selected > 0
    THEN [a EXCEPT !.selected = @ - 1,
                   !.selected_variable = 0,
                   !.request_details_scroll = 0]
    ELSE a

\* select_next that takes its limit from the whole file.
select_next_unfiltered(a) ==
    LET max == saturating_sub(Len(a.http_file.requests), 1)
    IN  IF a.selected < max
        THEN [a EXCEPT !.selected = @ + 1,
                       !.selected_variable = 0,
                       !.request_details_scroll = 0]
        ELSE a

select_next(a) ==
    LET max == IF a.filter_active
               THEN saturating_sub(Len(filtered_requests(a)), 1)
               ELSE saturating_sub(Len(a.http_file.requests), 1)
    IN  IF a.selected < max
        THEN [a EXCEPT !.selected = @ + 1,
                       !.selected_variable = 0,
                       !.request_details_scroll = 0]
        ELSE a

\* The names of the captures of a text, in order.
CaptureNames(text) ==
    LET caps == captures_iter(text) IN [i \in 1..Len(caps) |-> caps[i].name]

\* A retain that keeps every name.
DedupFrom_keep_all(names, i, seen) == SubSeq(names, i, Len(names))

\* Vec::retain with a HashSet of the names seen: the first occurrence stays.
RECURSIVE DedupFrom(_, _, _)
DedupFrom(names, i, seen) ==
    IF i > Len(names) THEN <<>>
    ELSE IF names[i] \in seen THEN DedupFrom(names, i + 1, seen)
         ELSE <<names[i]>> \o DedupFrom(names, i + 1, seen \cup {names[i]})

\* HashMap::values: the values in the map's own order, here one fixed order.
RECURSIVE ValuesOf(_, _)
ValuesOf(map, keys) ==
    IF keys = {} THEN <<>>
    ELSE LET k == CHOOSE k \in keys : TRUE
         IN  <<map[k]>> \o ValuesOf(map, keys \ {k})

RECURSIVE FlatNames(_, _)
FlatNames(texts, i) ==
    IF i > Len(texts) THEN <<>>
    ELSE CaptureNames(texts[i]) \o FlatNames(texts, i + 1)

RECURSIVE DefinedPairs(_, _, _)
DefinedPairs(names, i, variables) ==
    IF i > Len(names) THEN <<>>
    ELSE (IF names[i] \in DOMAIN variables
          THEN <<<<names[i], variables[names[i]]>>>>
          ELSE <<>>)
         \o DefinedPairs(names, i + 1, variables)

get_used_variables(a) ==
    LET sel == selected_request(a)
    IN  IF sel = None THEN <<>>
        ELSE LET request == sel[1]
                 var_names ==
                     CaptureNames(request.url)
                     \o FlatNames(ValuesOf(request.headers,
                                           DOMAIN request.headers), 1)
                     \o (IF request.body = None THEN <<>>
                         ELSE CaptureNames(request.body[1]))
             IN  DefinedPairs(DedupFrom(var_names, 1, {}), 1,
                              a.http_file.variables)

select_previous_variable(a) ==
    IF a.selected_variable > 0
    THEN [a EXCEPT !.selected_variable = @ - 1]
    ELSE a

select_next_variable(a) ==
    LET max == saturating_sub(Len(get_used_variables(a)), 1)
    IN  IF a.selected_variable < max
        THEN [a EXCEPT !.selected_variable = @ + 1]
        ELSE a

\* toggle_focus with a ring that leaves VariablesList out.
toggle_focus_skip(a) ==
    [a EXCEPT !.focus =
        CASE @ = "RequestList" -> "ResponseBody"
          [] @ = "ResponseBody" -> "RequestDetails"
          [] @ = "RequestDetails" -> "RequestList"
          [] @ = "VariablesList" -> "RequestList"
          [] @ \in {"HistoryList", "HistoryDetail"} -> "HistoryList"]

toggle_focus(a) ==
    [a EXCEPT !.focus =
        CASE @ = "RequestList" -> "ResponseBody"
          [] @ = "ResponseBody" -> "RequestDetails"
          [] @ = "RequestDetails" -> "VariablesList"
          [] @ = "VariablesList" -> "RequestList"
          [] @ \in {"HistoryList", "HistoryDetail"} -> "HistoryList"]

scroll_up(a) == [a EXCEPT !.response_scroll = saturating_sub(@, 1)]
\* scroll_down with an addition that wraps at 16 bits.
scroll_down_wrapping(a) ==
    [a EXCEPT !.response_scroll = (@ + 1) % (U16Max + 1)]

scroll_down(a) == [a EXCEPT !.response_scroll = saturating_add(@, 1)]
switch_to_body_tab(a) == [a EXCEPT !.response_tab = "Body"]
switch_to_headers_tab(a) == [a EXCEPT !.response_tab = "Headers"]
scroll_headers_up(a) == [a EXCEPT !.headers_scroll = saturating_sub(@, 1)]
scroll_headers_down(a) == [a EXCEPT !.headers_scroll = saturating_add(@, 1)]

scroll_request_details_up(a) ==
    [a EXCEPT !.request_details_scroll = saturating_sub(@, 1)]

\* str::lines().count(): the lines end at "\n"; a last line without one counts.
RECURSIVE LinesCountFrom(_, _)
LinesCountFrom(body, i) ==
    IF i > Len(body) THEN 0
    ELSE IF body[i] = "\n" THEN 1 + LinesCountFrom(body, i + 1)
         ELSE IF i = Len(body) THEN 1
              ELSE LinesCountFrom(body, i + 1)

lines_count(body) == LinesCountFrom(body, 1)

request_details_content_lines(a) ==
    LET sel == selected_request(a)
    IN  IF sel = None THEN 1
        ELSE LET request == sel[1]
                 header_count == Cardinality(DOMAIN request.headers)
             IN  1 + header_count
                 + (IF request.body = None THEN 0
                    ELSE (IF header_count # 0 THEN 1 ELSE 0)
                         + lines_count(request.body[1]))

scroll_request_details_down(a) ==
    LET content_lines == request_details_content_lines(a) % (U16Max + 1)
        visible == saturating_sub(a.request_details_visible_height, 2)
        max_scroll == saturating_sub(content_lines, visible)
    IN  IF a.request_details_scroll < max_scroll
        THEN [a EXCEPT !.request_details_scroll = saturating_add(@, 1)]
        ELSE a

\* add_history_entry that puts the entry first.
add_history_entry_front(a, entry) == [a EXCEPT !.history = <<entry>> \o @]

\* add_history_entry that keeps only the newest entry.
add_history_entry_replace(a, entry) == [a EXCEPT !.history = <<entry>>]

add_history_entry(a, entry) == [a EXCEPT !.history = Append(@, entry)]

\* toggle_history_view that leaves the focus where it is.
toggle_history_view_keep_focus(a) ==
    LET active == ~a.history_view_active
    IN  [a EXCEPT !.history_view_active = active,
                  !.selected_history =
                      IF active /\ a.history # <<>>
                      THEN Len(a.history) - 1
                      ELSE @,
                  !.history_detail_scroll = 0]

\* toggle_history_view that also moves the request selection to the top.
toggle_history_view_reset_selection(a) ==
    LET active == ~a.history_view_active
    IN  [a EXCEPT !.history_view_active = active,
                  !.focus = IF active THEN "HistoryList" ELSE "RequestList",
                  !.selected = 0,
                  !.selected_history =
                      IF active /\ a.history # <<>>
                      THEN Len(a.history) - 1
                      ELSE @,
                  !.history_detail_scroll = 0]

toggle_history_view(a) ==
    LET active == ~a.history_view_active
    IN  [a EXCEPT !.history_view_active = active,
                  !.focus = IF active THEN "HistoryList" ELSE "RequestList",
                  !.selected_history =
                      IF active /\ a.history # <<>>
                      THEN Len(a.history) - 1
                      ELSE @,
                  !.history_detail_scroll = 0]

selected_history_entry(a) == Get(a.history, a.selected_history)

select_previous_history(a) ==
    IF a.selected_history > 0
    THEN [a EXCEPT !.selected_history = @ - 1, !.history_detail_scroll = 0]
    ELSE a

\* select_next_history that compares with the length of the history.
select_next_history_unbounded(a) ==
    IF a.selected_history < Len(a.history)
    THEN [a EXCEPT !.selected_history = @ + 1, !.history_detail_scroll = 0]
    ELSE a

select_next_history(a) ==
    IF a.selected_history < saturating_sub(Len(a.history), 1)
    THEN [a EXCEPT !.selected_history = @ + 1, !.history_detail_scroll = 0]
    ELSE a

scroll_history_detail_up(a) ==
    [a EXCEPT !.history_detail_scroll = saturating_sub(@, 1)]

scroll_history_detail_down(a) ==
    [a EXCEPT !.history_detail_scroll = saturating_add(@, 1)]

(***************************************************************************)
(* src/tui/events.rs                                                       *)
(***************************************************************************)
\* The `for _ in 0..10` of the page keys.
PageStep == 10

Key(code, ch, ctrl) == [code |-> code, ch |-> ch, ctrl |-> ctrl]

Char(c) == Key("Char", c, FALSE)
Ctrl(c) == Key("Char", c, TRUE)
Plain(code) == Key(code, "", FALSE)

IsChar(key, c) == key.code = "Char" /\ key.ch = c

\* What handle_key_event hands back: the App as it left it, and the EventResult.
Handled(a, result) == [app |-> a, result |-> result]

Continue(a) == Handled(a, "Continue")

response_scroll_up(a) ==
    IF a.response_tab = "Body" THEN scroll_up(a) ELSE scroll_headers_up(a)

response_scroll_down(a) ==
    IF a.response_tab = "Body" THEN scroll_down(a) ELSE scroll_headers_down(a)

ApplyStep(step, a) ==
    CASE step = "response_up" -> response_scroll_up(a)
      [] step = "response_down" -> response_scroll_down(a)
      [] step = "details_up" -> scroll_request_details_up(a)
      [] step = "details_down" -> scroll_request_details_down(a)
      [] step = "history_up" -> scroll_history_detail_up(a)
      [] step = "history_down" -> scroll_history_detail_down(a)

RECURSIVE RepeatStep(_, _, _)
RepeatStep(step, n, a) ==
    IF n = 0 THEN a ELSE RepeatStep(step, n - 1, ApplyStep(step, a))

handle_filter_keys(a, key) ==
    CASE key.code = "Esc" -> Continue(exit_filter_mode(a))
      [] key.code = "Backspace" ->
            Continue(IF a.filter_text = <<>> THEN exit_filter_mode(a)
                     ELSE filter_backspace(a))
      [] (key.code = "Up" \/ IsChar(key, "k")) /\ key.ctrl ->
            Continue(select_previous(a))
      [] (key.code = "Down" \/ IsChar(key, "j")) /\ key.ctrl ->
            Continue(select_next(a))
      [] key.code = "Up" /\ ~key.ctrl -> Continue(select_previous(a))
      [] key.code = "Down" /\ ~key.ctrl -> Continue(select_next(a))
      [] key.code = "Enter" -> Handled(a, "ExecuteRequest")
      [] key.code = "Char" /\ ~(key.ch \in {"j", "k"} /\ key.ctrl) ->
            Continue(filter_append_char(a, key.ch))
      [] OTHER -> Continue(a)

handle_request_list_keys(a, key) ==
    IF a.filter_active THEN handle_filter_keys(a, key)
    ELSE CASE key.code = "Up" \/ IsChar(key, "k") -> Continue(select_previous(a))
           [] key.code = "Down" \/ IsChar(key, "j") -> Continue(select_next(a))
           [] key.code = "Enter" -> Handled(a, "ExecuteRequest")
           [] IsChar(key, "/") -> Continue(enter_filter_mode(a))
           [] OTHER -> Continue(a)

handle_variables_keys(a, key) ==
    CASE key.code = "Up" \/ IsChar(key, "k") ->
            Continue(select_previous_variable(a))
      [] key.code = "Down" \/ IsChar(key, "j") ->
            Continue(select_next_variable(a))
      [] OTHER -> Continue(a)

handle_response_keys(a, key) ==
    CASE IsChar(key, "h") \/ key.code = "Right" ->
            Continue(switch_to_headers_tab(a))
      [] IsChar(key, "b") \/ key.code = "Left" ->
            Continue(switch_to_body_tab(a))
      [] key.code = "Up" \/ IsChar(key, "k") -> Continue(response_scroll_up(a))
      [] key.code = "Down" \/ IsChar(key, "j") ->
            Continue(response_scroll_down(a))
      [] key.code = "PageUp" ->
            Continue(RepeatStep("response_up", PageStep, a))
      [] key.code = "PageDown" ->
            Continue(RepeatStep("response_down", PageStep, a))
      [] OTHER -> Continue(a)

handle_request_details_keys(a, key) ==
    CASE key.code = "Up" \/ IsChar(key, "k") ->
            Continue(scroll_request_details_up(a))
      [] key.code = "Down" \/ IsChar(key, "j") ->
            Continue(scroll_request_details_down(a))
      [] key.code = "PageUp" -> Continue(RepeatStep("details_up", PageStep, a))
      [] key.code = "PageDown" ->
            Continue(RepeatStep("details_down", PageStep, a))
      [] OTHER -> Continue(a)

\* handle_history_list_keys with the `/` arm of the request list.
handle_history_list_keys_with_filter(a, key) ==
    CASE key.code = "Up" \/ IsChar(key, "k") ->
            Continue(select_previous_history(a))
      [] key.code = "Down" \/ IsChar(key, "j") ->
            Continue(select_next_history(a))
      [] key.code = "Enter" -> Handled(a, "ExecuteHistoryEntry")
      [] IsChar(key, "/") -> Continue(enter_filter_mode(a))
      [] OTHER -> Continue(a)

handle_history_list_keys(a, key) ==
    CASE key.code = "Up" \/ IsChar(key, "k") ->
            Continue(select_previous_history(a))
      [] key.code = "Down" \/ IsChar(key, "j") ->
            Continue(select_next_history(a))
      [] key.code = "Enter" -> Handled(a, "ExecuteHistoryEntry")
      [] OTHER -> Continue(a)

handle_history_detail_keys(a, key) ==
    CASE key.code = "Up" \/ IsChar(key, "k") ->
            Continue(scroll_history_detail_up(a))
      [] key.code = "Down" \/ IsChar(key, "j") ->
            Continue(scroll_history_detail_down(a))
      [] key.code = "PageUp" -> Continue(RepeatStep("history_up", PageStep, a))
      [] key.code = "PageDown" ->
            Continue(RepeatStep("history_down", PageStep, a))
      [] OTHER -> Continue(a)

\* handle_key_event that lets the filter take the key q.
handle_key_event_q_typed(a, key) ==
    CASE IsChar(key, "q") /\ ~a.filter_active -> Handled(a, "Quit")
      [] IsChar(key, "c") /\ key.ctrl -> Handled(a, "Quit")
      [] IsChar(key, "H") /\ ~a.filter_active -> Continue(toggle_history_view(a))
      [] key.code = "Esc" /\ a.history_view_active ->
            Continue(toggle_history_view(a))
      [] key.code = "Tab" ->
            Continue(IF a.history_view_active
                     THEN [a EXCEPT !.focus =
                              IF @ = "HistoryList" THEN "HistoryDetail"
                              ELSE "HistoryList"]
                     ELSE toggle_focus(a))
      [] OTHER ->
            IF a.history_view_active
            THEN CASE a.focus = "HistoryList" -> handle_history_list_keys(a, key)
                   [] a.focus = "HistoryDetail" ->
                         handle_history_detail_keys(a, key)
                   [] OTHER -> Continue(a)
            ELSE CASE a.focus = "RequestList" -> handle_request_list_keys(a, key)
                   [] a.focus = "ResponseBody" -> handle_response_keys(a, key)
                   [] a.focus = "RequestDetails" ->
                         handle_request_details_keys(a, key)
                   [] a.focus = "VariablesList" -> handle_variables_keys(a, key)
                   [] OTHER -> Continue(a)

handle_key_event(a, key) ==
    CASE IsChar(key, "q") -> Handled(a, "Quit")
      [] IsChar(key, "c") /\ key.ctrl -> Handled(a, "Quit")
      [] IsChar(key, "H") /\ ~a.filter_active -> Continue(toggle_history_view(a))
      [] key.code = "Esc" /\ a.history_view_active ->
            Continue(toggle_history_view(a))
      [] key.code = "Tab" ->
            Continue(IF a.history_view_active
                     THEN [a EXCEPT !.focus =
                              IF @ = "HistoryList" THEN "HistoryDetail"
                              ELSE "HistoryList"]
                     ELSE toggle_focus(a))
      [] OTHER ->
            IF a.history_view_active
            THEN CASE a.focus = "HistoryList" -> handle_history_list_keys(a, key)
                   [] a.focus = "HistoryDetail" ->
                         handle_history_detail_keys(a, key)
                   [] OTHER -> Continue(a)
            ELSE CASE a.focus = "RequestList" -> handle_request_list_keys(a, key)
                   [] a.focus = "ResponseBody" -> handle_response_keys(a, key)
                   [] a.focus = "RequestDetails" ->
                         handle_request_details_keys(a, key)
                   [] a.focus = "VariablesList" -> handle_variables_keys(a, key)
                   [] OTHER -> Continue(a)

(***************************************************************************)
(* src/client.rs and src/error.rs                                          *)
(***************************************************************************)
\* HeaderName::try_from accepts a non-empty run of token characters,
\* HeaderValue::try_from refuses control characters.
HeaderNameChars == WordChars \cup {"-"}

ValidHeaderName(key) ==
    key # <<>> /\ \A i \in 1..Len(key) : key[i] \in HeaderNameChars

ValidHeaderValue(value) == \A i \in 1..Len(value) : value[i] # "\n"

\* What Client::execute builds and sends: method, url, the headers that
\* convert, and the body, each as the Request holds it.
WireRequest(request) ==
    [method |-> request.method,
     url |-> request.url,
     headers |-> [k \in {k \in DOMAIN request.headers :
                            /\ ValidHeaderName(k)
                            /\ ValidHeaderValue(request.headers[k])}
                  |-> request.headers[k]],
     body |-> request.body]

\* What the network gives back to send().await: a response (status, its
\* canonical reason if it has one, headers, the text if it decodes, the time
\* it took) or a reqwest::Error.
NetResponse(status, reason, headers, text, elapsed) ==
    [ok |-> TRUE, status |-> status, reason |-> reason, headers |-> headers,
     text |-> text, elapsed |-> elapsed]

NetError(is_timeout, message) ==
    [ok |-> FALSE, is_timeout |-> is_timeout, message |-> message]

\* impl From<reqwest::Error> for HttpError, then for Error
HttpErrorFrom(err) ==
    IF err.is_timeout THEN [kind |-> "Timeout"]
    ELSE [kind |-> "RequestFailed", message |-> err.message]

ErrorFrom(err) == [kind |-> "Http", inner |-> HttpErrorFrom(err)]

\* The #[error(..)] texts of HttpError and Error
HttpErrorDisplay(e) ==
    CASE e.kind = "RequestFailed" -> "Request failed: " \o e.message
      [] e.kind = "InvalidUrl" -> "Invalid URL: " \o e.message
      [] e.kind = "Timeout" -> "Timeout"

ErrorDisplay(e) ==
    CASE e.kind = "Http" -> "HTTP error: " \o HttpErrorDisplay(e.inner)

Response(status, status_text, headers, body, duration) ==
    [status |-> status, status_text |-> status_text, headers |-> headers,
     body |-> body, duration |-> duration]

\* Client::execute from the return of send().await on.
ClientResult(reply) ==
    IF ~reply.ok THEN Err(ErrorFrom(reply))
    ELSE Ok(Response(reply.status,
                     IF reply.reason = None THEN "Unknown" ELSE reply.reason[1],
                     reply.headers,
                     IF reply.text = None THEN "" ELSE reply.text[1],
                     reply.elapsed))

\* The answers the network gives in the model.
Replies ==
    { NetResponse(200, Some("OK"), <<<<"content-type", "text/plain">>>>,
                  Some("hello"), 7),
      NetError(TRUE, "operation timed out") }

(***************************************************************************)
(* src/tui/ui.rs: what render writes into the App.                         *)
(***************************************************************************)
render(a, height) ==
    IF a.history_view_active THEN a
    ELSE [a EXCEPT !.request_details_visible_height = height]

(***************************************************************************)
(* src/tui/mod.rs                                                          *)
(***************************************************************************)
HistoryEntry(request, response, timestamp) ==
    [request |-> request, response |-> response, timestamp |-> timestamp]

\* execute_request that does not reset the response scroll.
execute_request_begin_keeps_scroll(a) == [a EXCEPT !.loading = TRUE]

\* execute_request up to its draw.
execute_request_begin(a) ==
    [a EXCEPT !.loading = TRUE, !.response_scroll = 0]

\* The response execute_request makes of an error.
ErrorResponse(e) ==
    Response(0, "Error", <<>>, "Error: " \o ErrorDisplay(e), 0)

\* The match of execute_request with an Err arm that only logs.
execute_request_match_ok_only(a, request, timestamp, result) ==
    IF result.ok
    THEN [add_history_entry(a, HistoryEntry(request, result.val, timestamp))
             EXCEPT !.last_response = Some(result.val)]
    ELSE a

\* The match of execute_request on what client.execute returned.
execute_request_match(a, request, timestamp, result) ==
    IF result.ok
    THEN [add_history_entry(a, HistoryEntry(request, result.val, timestamp))
             EXCEPT !.last_response = Some(result.val)]
    ELSE LET error_response == ErrorResponse(result.err)
         IN  [add_history_entry(a, HistoryEntry(request, error_response,
                                                timestamp))
                 EXCEPT !.last_response = Some(error_response)]

\* execute_request that leaves loading set when the call failed.
execute_request_end_loading_on_error(a) ==
    LET done == [a EXCEPT !.loading = (a.last_response[1].status = 0)]
    IN  IF done.history_view_active
        THEN [done EXCEPT !.selected_history =
                             saturating_sub(Len(done.history), 1)]
        ELSE done

\* execute_request that moves the history selection in either view.
execute_request_end_always_selects(a) ==
    [a EXCEPT !.loading = FALSE,
              !.selected_history = saturating_sub(Len(a.history), 1)]

\* execute_request after the match.
execute_request_end(a) ==
    LET done == [a EXCEPT !.loading = FALSE]
    IN  IF done.history_view_active
        THEN [done EXCEPT !.selected_history =
                             saturating_sub(Len(done.history), 1)]
        ELSE done

\* run polls for a key also while a call is awaited.
LoopPollsAlways == pc \in {"poll", "await"}

\* run reads the next event only at the top of its loop: execute_request is
\* awaited inside the match, so nothing is polled while a call is out.
LoopPolls == pc = "poll"

\* The keys of the model: every key some arm of the dispatcher names, and
\* one (F1) that none does.
Keys ==
    { Char("q"), Ctrl("c"), Char("H"), Plain("Esc"), Plain("Tab"),
      Plain("Up"), Plain("Down"), Plain("Enter"), Plain("Backspace"),
      Char("/"), Char("j"), Char("k"), Ctrl("j"), Ctrl("k"),
      Char("h"), Char("b"), Plain("Left"), Plain("Right"),
      Plain("PageUp"), Plain("PageDown"), Plain("F1") }

\* One turn of the loop up to the end of handle_key_event: draw, then dispatch.
Dispatch(key) == handle_key_event(render(app, area_height), key)

\* The request to execute, with the first request of the file taken when
\* none is selected.
ExecuteTarget_or_first(h) ==
    CASE h.result = "ExecuteRequest" ->
            IF selected_request(h.app) = None
            THEN Get(h.app.http_file.requests, 0)
            ELSE selected_request(h.app)
      [] h.result = "ExecuteHistoryEntry" ->
            LET entry == selected_history_entry(h.app)
            IN  IF entry = None THEN None ELSE Some(entry[1].request)
      [] OTHER -> None

\* The request an EventResult asks to execute, if there is one.
ExecuteTarget(h) ==
    CASE h.result = "ExecuteRequest" -> selected_request(h.app)
      [] h.result = "ExecuteHistoryEntry" ->
            LET entry == selected_history_entry(h.app)
            IN  IF entry = None THEN None ELSE Some(entry[1].request)
      [] OTHER -> None

\* The counters the code leaves unbounded, kept within the model's bounds:
\* the three saturating scroll offsets together, and the filter text.
WithinBounds(a, scroll_cap, filter_cap) ==
    /\ a.response_scroll + a.headers_scroll + a.history_detail_scroll
           <= scroll_cap
    /\ Len(a.filter_text) <= filter_cap

AfterTurn(a) == IF a.should_quit THEN "quit" ELSE "poll"

\* poll_event returns a key: the rest of the loop's turn.  On Quit the loop
\* breaks; on an execute result with a request to execute, execute_request
\* runs up to the await of client.execute; otherwise the loop goes on.
KeyEvent(key) ==
    /\ LoopPolls
    /\ IF key_queue = <<>> THEN key_queue' = key_queue
       ELSE key = Head(key_queue) /\ key_queue' = Tail(key_queue)
    /\ LET h == Dispatch(key)
           target == ExecuteTarget(h)
       IN  IF h.result = "Quit"
           THEN /\ app' = h.app
                /\ pc' = "quit"
                /\ UNCHANGED <<in_flight, clock, net_sent, net_pending>>
           ELSE IF target = None
           THEN /\ WithinBounds(h.app, MaxScroll, MaxFilterLen)
                /\ app' = h.app
                /\ pc' = AfterTurn(h.app)
                /\ UNCHANGED <<in_flight, clock, net_sent, net_pending>>
           ELSE /\ Len(net_sent) < MaxHistory
                /\ app' = render(execute_request_begin(h.app), area_height)
                /\ in_flight' = Some([request |-> target[1],
                                      timestamp |-> clock])
                /\ clock' = clock + 1
                /\ net_sent' = Append(net_sent, WireRequest(target[1]))
                /\ net_pending' = net_pending \cup {Len(net_sent) + 1}
                /\ pc' = "await"
    /\ UNCHANGED <<area_height, net_replies, sub_state, parse_state>>

\* poll_event times out, or the event is no key: the loop draws and goes on.
PollIdle ==
    /\ LoopPolls
    /\ key_queue = <<>>
    /\ app' = render(app, area_height)
    /\ pc' = AfterTurn(app)
    /\ UNCHANGED <<in_flight, area_height, key_queue, clock, net_sent,
                   net_pending, net_replies, sub_state, parse_state>>

\* The keys pressed while a call is awaited in the model.
TypeAheadKeys == {Plain("Enter"), Plain("Down"), Char("H")}

\* A key is pressed while execute_request is awaited: nothing reads it, the
\* terminal holds it for the next poll_event.
KeyArrives(key) ==
    /\ pc = "await"
    /\ Len(key_queue) < MaxQueue
    /\ key_queue' = Append(key_queue, key)
    /\ UNCHANGED <<app, pc, in_flight, area_height, clock, net_sent,
                   net_pending, net_replies, sub_state, parse_state>>

\* client.execute returns: the rest of execute_request, and the end of the
\* loop's turn.
TransportReturns(reply) ==
    /\ pc = "await"
    /\ \E id \in net_pending :
          net_pending' = net_pending \ {id}
    /\ LET call == in_flight[1]
           folded == execute_request_end(
                         execute_request_match(app, call.request,
                                               call.timestamp,
                                               ClientResult(reply)))
       IN  /\ app' = folded
           /\ pc' = AfterTurn(folded)
    /\ in_flight' = None
    /\ net_replies' = Append(net_replies, reply)
    /\ UNCHANGED <<area_height, key_queue, clock, net_sent, sub_state, parse_state>>

(***************************************************************************)
(* Specifications.                                                         *)
(***************************************************************************)
AreaHeights == {MaxAreaHeight}

SessionIdle ==
    /\ app = AppNew(TheFile)
    /\ pc = "idle"
    /\ in_flight = None
    /\ area_height = 0
    /\ key_queue = <<>>
    /\ clock = 0
    /\ net_sent = <<>>
    /\ net_pending = {}
    /\ net_replies = <<>>

SessionInit ==
    /\ app = AppNew(TheFile)
    /\ pc = "poll"
    /\ in_flight = None
    /\ area_height \in AreaHeights
    /\ key_queue = <<>>
    /\ clock = 0
    /\ net_sent = <<>>
    /\ net_pending = {}
    /\ net_replies = <<>>

SubIdle ==
    /\ sub_text = <<>>
    /\ sub_vars = <<>>
    /\ sub_out = None
    /\ sub_pc = "idle"

ParseIdle ==
    /\ content = <<>>
    /\ line_no = 0
    /\ parser = ParserNew
    /\ parse_out = None
    /\ parse_pc = "idle"

ParseInit ==
    /\ SessionIdle
    /\ SubIdle
    /\ content \in Files
    /\ line_no = 0
    /\ parser = ParserNew
    /\ parse_out = None
    /\ parse_pc = "loop"

\* One turn of the loop of parse_content; an error of a `?` returns at once.
ParseLine ==
    /\ parse_pc = "loop"
    /\ line_no < Len(content)
    /\ parser' = parse_line(parser, content[line_no + 1])
    /\ line_no' = line_no + 1
    /\ IF parser'.error # None
       THEN parse_out' = Some(parse_result(parser')) /\ parse_pc' = "done"
       ELSE UNCHANGED <<parse_out, parse_pc>>
    /\ UNCHANGED <<content, session_state, sub_state>>

\* The loop is over: the open request is built and the result returned.
ParseEnd ==
    /\ parse_pc = "loop"
    /\ line_no = Len(content)
    /\ parser' = parse_finish(parser)
    /\ parse_out' = Some(parse_result(parser'))
    /\ parse_pc' = "done"
    /\ UNCHANGED <<content, line_no, session_state, sub_state>>

SubInit ==
    /\ SessionIdle
    /\ ParseIdle
    /\ sub_text \in Texts
    /\ sub_vars \in Tables
    /\ sub_out = None
    /\ sub_pc = "call"

SubstituteCall ==
    /\ sub_pc = "call"
    /\ sub_out' = Some(substitute(sub_text, sub_vars))
    /\ sub_pc' = "done"
    /\ UNCHANGED <<sub_text, sub_vars, session_state, parse_state>>

Init == SessionInit /\ SubIdle /\ ParseIdle

Next ==
    \/ \E key \in Keys : KeyEvent(key)
    \/ PollIdle
    \/ \E key \in TypeAheadKeys : KeyArrives(key)
    \/ \E reply \in Replies : TransportReturns(reply)

\* The interactive session: tui::run on TheFile.
Spec == Init /\ [][Next]_vars

\* The session with a transport whose call returns: client.execute comes back
\* with a response or an error, its own timeout at the latest.
SpecLive ==
    Spec /\ WF_vars(\E reply \in Replies : TransportReturns(reply))

SubNext == SubstituteCall

\* One call of substitute on a text and a table of the bounded sets.
SpecSub == SubInit /\ [][SubNext]_vars

\* Offsets the response panel can have been scrolled to: near 0, around one
\* page, and near the 16-bit maximum.
ScrollSamples ==
    {0, 1, PageStep - 1, PageStep, PageStep + 1, U16Max - PageStep - 1,
     U16Max - PageStep, U16Max - 1, U16Max}

\* The keys handle_response_keys names.
ResponseKeys ==
    { Plain("Up"), Plain("Down"), Char("k"), Char("j"), Plain("PageUp"),
      Plain("PageDown"), Char("h"), Char("b"), Plain("Left"), Plain("Right") }

\* The session with the focus on the response panel, its two offsets at
\* sampled values, and one key waiting.
ResponseInit ==
    /\ SubIdle
    /\ ParseIdle
    /\ app \in {[AppNew(TheFile) EXCEPT !.focus = "ResponseBody",
                                        !.response_scroll = body_offset,
                                        !.headers_scroll = headers_offset,
                                        !.response_tab = tab] :
                    body_offset \in ScrollSamples,
                    headers_offset \in ScrollSamples,
                    tab \in {"Body", "Headers"}}
    /\ pc = "poll"
    /\ in_flight = None
    /\ area_height \in AreaHeights
    /\ key_queue \in {<<key>> : key \in ResponseKeys}
    /\ clock = 0
    /\ net_sent = <<>>
    /\ net_pending = {}
    /\ net_replies = <<>>

\* One turn of the loop on the key the terminal holds, when the dispatcher
\* returns Continue.
KeyTurn ==
    /\ LoopPolls
    /\ key_queue # <<>>
    /\ LET h == Dispatch(Head(key_queue))
       IN  /\ h.result = "Continue"
           /\ app' = h.app
           /\ pc' = AfterTurn(h.app)
    /\ key_queue' = Tail(key_queue)
    /\ UNCHANGED <<in_flight, area_height, clock, net_sent, net_pending,
                   net_replies, sub_state, parse_state>>

\* One key on the response panel.
SpecResponse == ResponseInit /\ [][KeyTurn]_vars

\* Texts of a request with no, one or two tokens, among them a repeated
\* name and a name (x) no table of the model defines.
FieldTexts ==
    {<<"-">>, TokA, TokB, TokA \o <<"-">> \o TokB, TokB \o TokA,
     TokA \o TokA, TokX \o TokA}

\* Requests with a URL, at most one header and at most a body of FieldTexts.
UsedRequests ==
    {Request(None, "GET", url, headers, body) :
        url \in FieldTexts,
        headers \in {NoHeaders}
                       \cup {[key \in {<<"k">>} |-> value] : value \in FieldTexts},
        body \in {None} \cup {Some(text) : text \in FieldTexts}}

UsedTables ==
    {[name \in names |-> IF name = <<"a">> THEN <<"1">> ELSE <<"2">>] :
        names \in SUBSET VarNames}

\* The session on a file of one request of UsedRequests, or of none, with
\* the keys that lead to the variables panel and down its list waiting.
UsedInit ==
    /\ SubIdle
    /\ ParseIdle
    /\ app \in {AppNew([requests |-> requests, variables |-> table]) :
                    requests \in {<<>>} \cup {<<r>> : r \in UsedRequests},
                    table \in UsedTables}
    /\ pc = "poll"
    /\ in_flight = None
    /\ area_height \in AreaHeights
    /\ key_queue = <<Plain("Tab"), Plain("Tab"), Plain("Tab"), Plain("Down"),
                     Plain("Down")>>
    /\ clock = 0
    /\ net_sent = <<>>
    /\ net_pending = {}
    /\ net_replies = <<>>

\* The variables panel of a session on one request.
SpecUsed == UsedInit /\ [][KeyTurn]_vars

ParseNext == ParseLine \/ ParseEnd

\* One call of parse_content on a file of the bounded set.
SpecParse == ParseInit /\ [][ParseNext]_vars

(***************************************************************************)
(* Properties of the session.                                              *)
(***************************************************************************)

\* s contains pat, letter case aside.
ContainsIgnoringCase(s, pat) ==
    \E i \in 1..(Len(s) - Len(pat) + 1) :
        \A k \in 1..Len(pat) : Lower(s[i + k - 1]) = Lower(pat[k])

\* The number of requests of the visible list.
VisibleCount(a) ==
    IF ~a.filter_active \/ a.filter_text = <<>>
    THEN Len(a.http_file.requests)
    ELSE Cardinality(
             {i \in 1..Len(a.http_file.requests) :
                 LET req == a.http_file.requests[i]
                 IN  \/ ContainsIgnoringCase(req.url, a.filter_text)
                     \/ /\ req.name # None
                        /\ ContainsIgnoringCase(req.name[1], a.filter_text)})

\* C1: the request selection stays inside the visible list: below the number
\* of visible requests when there are any, 0 when there are none.
C1_SelectionInVisibleList ==
    LET n == VisibleCount(app)
    IN  IF n > 0 THEN 0 <= app.selected /\ app.selected < n
        ELSE app.selected = 0

\* The last request of a filtered list of two is selected, after an execution.
C1_Witness ==
    /\ app.filter_active
    /\ app.filter_text # <<>>
    /\ VisibleCount(app) = 2
    /\ app.selected = 1
    /\ app.history # <<>>

\* The request of the i-th execution: that of the i-th history entry once the
\* execution is folded, that of the call in flight before.
ExecutedRequest(i) ==
    IF i <= Len(app.history) THEN app.history[i].request
    ELSE in_flight[1].request

\* C2: after M completed executions history has M entries, entry i is the
\* i-th execution (its request, its outcome, in the order of time), and
\* last_response is the response of the last entry, None when there is none.
C2_HistoryIsTheExecutions ==
    /\ Len(app.history) = Len(net_replies)
    /\ \A i \in 1..Len(app.history) :
          /\ WireRequest(app.history[i].request) = net_sent[i]
          /\ IF net_replies[i].ok
             THEN /\ app.history[i].response.status = net_replies[i].status
                  /\ app.history[i].response.body = net_replies[i].text[1]
             ELSE app.history[i].response.status = 0
          /\ \A j \in 1..Len(app.history) :
                i < j => app.history[i].timestamp < app.history[j].timestamp
    /\ app.last_response =
          IF app.history = <<>> THEN None
          ELSE Some(app.history[Len(app.history)].response)

\* Two executions of different requests, one failed and one answered, with
\* key events in between.
C2_Witness ==
    /\ Len(app.history) = 2
    /\ app.history[1].request # app.history[2].request
    /\ app.history[1].response.status = 0
    /\ app.history[2].response.status = 200
    /\ app.focus = "VariablesList"

IsPrefix(s, t) == Len(s) <= Len(t) /\ SubSeq(t, 1, Len(s)) = s

\* The step in which execute_request comes back from its await.
FoldStep == pc = "await" /\ pc' # "await"

\* C3: history is append-only: every step leaves the old history a prefix of
\* the new one, the fold step of an execution adds exactly one entry, and no
\* other step changes history.
C3_HistoryAppendOnly ==
    [][/\ IsPrefix(app.history, app'.history)
       /\ FoldStep => Len(app'.history) = Len(app.history) + 1
       /\ ~FoldStep => app'.history = app.history]_vars

\* Two entries, and the history list moved to the older one.
C3_Witness ==
    /\ Len(app.history) >= 2
    /\ app.history_view_active
    /\ app.selected_history = 0
    /\ app.focus = "HistoryDetail"

\* C4: at most one transport call is outstanding, and loading is true exactly
\* while one is: from the execute command until its result is folded.  No
\* second call is sent before the first is answered.
C4_OneCallInFlight ==
    /\ Cardinality(net_pending) <= 1
    /\ Len(net_sent) <= Len(net_replies) + 1
    /\ app.loading <=> net_pending # {}
    /\ app.loading <=> pc = "await"
    /\ app.loading <=> in_flight # None

\* Enter has arrived while the second call of the session is out, the first
\* being folded, and waits in the terminal.
C4_Witness ==
    /\ pc = "await"
    /\ app.loading
    /\ Len(net_replies) = 1
    /\ net_pending = {2}
    /\ key_queue = <<Plain("Enter")>>

Resolved(text) ==
    LET r == substitute(text, app.http_file.variables)
    IN  IF r.ok THEN Some(r.val) ELSE None

RequestResolves(request) ==
    /\ Resolved(request.url) # None
    /\ \A k \in DOMAIN request.headers : Resolved(request.headers[k]) # None
    /\ request.body # None => Resolved(request.body[1]) # None

\* C6: what is handed to the network is the substituted request: url, header
\* values and body with every token replaced by its table value; a request
\* with an unbound token is not sent, its execution ends in the error
\* response.
C6_SubstitutedBeforeSending ==
    /\ \A i \in 1..Len(net_sent) :
          LET request == ExecutedRequest(i)
          IN  /\ RequestResolves(request)
              /\ net_sent[i].url = Resolved(request.url)[1]
              /\ \A k \in DOMAIN net_sent[i].headers :
                    net_sent[i].headers[k] = Resolved(request.headers[k])[1]
              /\ request.body # None =>
                    net_sent[i].body = Resolved(request.body[1])
    /\ \A i \in 1..Len(app.history) :
          ~RequestResolves(app.history[i].request)
              => app.history[i].response.status = 0

\* One turn of the loop on the key `key`, from the App a.
Press(a, key) == handle_key_event(render(a, area_height), key).app

\* The focus after `focus` in the ring of the main view.
RingNext(focus) ==
    CASE focus = "RequestList" -> "ResponseBody"
      [] focus = "ResponseBody" -> "RequestDetails"
      [] focus = "RequestDetails" -> "VariablesList"
      [] focus = "VariablesList" -> "RequestList"

\* C18: outside history view the focus is one of RequestList, ResponseBody,
\* RequestDetails, VariablesList, each Tab moves it to the next of that ring
\* and four Tabs bring it back; inside history view it is HistoryList or
\* HistoryDetail, Tab moves it to the other and two Tabs bring it back.
C18_FocusCycleReturns ==
    LET a1 == Press(app, Plain("Tab"))
        a2 == Press(a1, Plain("Tab"))
        a3 == Press(a2, Plain("Tab"))
        a4 == Press(a3, Plain("Tab"))
    IN  IF ~app.history_view_active
        THEN /\ app.focus \in {"RequestList", "ResponseBody", "RequestDetails",
                               "VariablesList"}
             /\ a1.focus = RingNext(app.focus)
             /\ a2.focus = RingNext(a1.focus)
             /\ a3.focus = RingNext(a2.focus)
             /\ a4.focus = app.focus
             /\ ~a4.history_view_active
        ELSE /\ app.focus \in {"HistoryList", "HistoryDetail"}
             /\ a1.focus \in {"HistoryList", "HistoryDetail"} \ {app.focus}
             /\ a2.focus = app.focus
             /\ a2.history_view_active

\* Three Tabs have moved the focus to VariablesList while the filter is
\* active.
C18_Witness ==
    /\ ~app.history_view_active
    /\ app.focus = "VariablesList"
    /\ app.filter_active

\* C19: a step that activates the filter or changes the filter text leaves
\* selected at 0.
C19_FilterChangeResetsSelection ==
    [][ ((~app.filter_active /\ app'.filter_active)
            \/ app'.filter_text # app.filter_text)
          => app'.selected = 0 ]_vars

\* The filter is active with an empty text and the second request selected:
\* the next change of the text has a selection to reset.
C19_Witness ==
    /\ app.filter_active
    /\ app.filter_text = <<>>
    /\ app.selected = 1
    /\ app.focus = "RequestList"

\* C20: in every reachable state the history toggle key H flips
\* history_view_active; on entering, focus becomes HistoryList and the newest
\* entry is selected if there is one; on leaving, focus becomes RequestList.
C20_HistoryToggleGlobal ==
    LET toggled == Press(app, Char("H"))
    IN  /\ toggled.history_view_active = ~app.history_view_active
        /\ toggled.history_view_active
              => /\ toggled.focus = "HistoryList"
                 /\ app.history # <<>>
                       => toggled.selected_history = Len(app.history) - 1
        /\ ~toggled.history_view_active => toggled.focus = "RequestList"

QuitKeys == {Char("q"), Ctrl("c")}

\* C21: in every reachable state q and Ctrl+C make the dispatcher return
\* Quit and leave every field of the App as it was.
C21_QuitEverywhere ==
    \A key \in QuitKeys :
        LET a == render(app, area_height)
        IN  handle_key_event(a, key) = Handled(a, "Quit")

\* The loop has ended on a quit key pressed in filter mode.
C21_Witness ==
    /\ pc = "quit"
    /\ app.filter_active
    /\ app.filter_text # <<>>
    /\ app.focus = "RequestList"

\* C22: the variable selection is inside the list of the variables the
\* selected request uses: at most used_count - 1, and 0 when the list is
\* empty.
C22_VariableSelectionInRange ==
    LET used_count == Len(get_used_variables(app))
    IN  IF used_count > 0 THEN app.selected_variable <= used_count - 1
        ELSE app.selected_variable = 0

\* content_line_count of a request: the request line, the headers, and the
\* lines of the body with a separator line when there are headers too.
ContentLineCount(request) ==
    1 + Cardinality(DOMAIN request.headers)
      + (IF request.body = None THEN 0
         ELSE LET body == request.body[1]
              IN  Cardinality({i \in 1..Len(body) : body[i] = "\n"}) + 1
                  + (IF DOMAIN request.headers # {} THEN 1 ELSE 0))

\* C23: request_details_scroll is at most
\* max(0, content_line_count - visible_height + 2) for the selected request.
C23_DetailsScrollInRange ==
    LET sel == selected_request(app)
    IN  sel # None =>
            LET limit == ContentLineCount(sel[1])
                             - app.request_details_visible_height + 2
            IN  /\ app.request_details_scroll >= 0
                /\ app.request_details_scroll <= (IF limit > 0 THEN limit ELSE 0)

\* C24: selected_history is 0 while the history is empty and at most
\* history_len - 1 otherwise, so that selected_history_entry is None only
\* when the history is empty.
C24_HistorySelectionInRange ==
    /\ IF app.history = <<>> THEN app.selected_history = 0
       ELSE app.selected_history <= Len(app.history) - 1
    /\ selected_history_entry(app) = None => app.history = <<>>

\* In history view the newest of two entries is selected.
C24_Witness ==
    /\ app.history_view_active
    /\ app.focus = "HistoryList"
    /\ Len(app.history) = 2
    /\ app.selected_history = 1

TakesKey == key_queue # <<>> /\ key_queue' = Tail(key_queue)

\* The offset of the sub-tab that is active in `shown`, read from a.
ActiveOffset(a, shown) ==
    IF shown.response_tab = "Body" THEN a.response_scroll ELSE a.headers_scroll

OtherOffset(a, shown) ==
    IF shown.response_tab = "Body" THEN a.headers_scroll ELSE a.response_scroll

\* The App without the fields the response panel and the draw write.
OutsideResponsePanel(a) ==
    [a EXCEPT !.response_scroll = 0, !.headers_scroll = 0,
              !.response_tab = "Body", !.request_details_visible_height = 0]

\* C26: on the response panel Up, Down, PageUp and PageDown change only the
\* offset of the active sub-tab: up by 1 or by 10 but not below 0, down by 1
\* or by 10 but not above the 16-bit maximum; the keys that switch the
\* sub-tab change neither offset.
C26_ResponseScroll ==
    [][ TakesKey =>
          LET key == Head(key_queue)
              old == ActiveOffset(app, app)
              new == ActiveOffset(app', app)
          IN  /\ OutsideResponsePanel(app') = OutsideResponsePanel(app)
              /\ OtherOffset(app', app) = OtherOffset(app, app)
              /\ key \in {Plain("Up"), Char("k")}
                    => /\ new = (IF old >= 1 THEN old - 1 ELSE 0)
                       /\ app'.response_tab = app.response_tab
              /\ key \in {Plain("Down"), Char("j")}
                    => /\ new = (IF old + 1 <= 65535 THEN old + 1 ELSE 65535)
                       /\ app'.response_tab = app.response_tab
              /\ key = Plain("PageUp")
                    => /\ new = (IF old >= 10 THEN old - 10 ELSE 0)
                       /\ app'.response_tab = app.response_tab
              /\ key = Plain("PageDown")
                    => /\ new = (IF old + 10 <= 65535 THEN old + 10 ELSE 65535)
                       /\ app'.response_tab = app.response_tab
              /\ key \in {Char("h"), Plain("Right")}
                    => new = old /\ app'.response_tab = "Headers"
              /\ key \in {Char("b"), Plain("Left")}
                    => new = old /\ app'.response_tab = "Body" ]_vars

\* A key has been taken and the body offset stands at the 16-bit maximum
\* with the headers offset at one page.
C26_Witness ==
    /\ key_queue = <<>>
    /\ app.focus = "ResponseBody"
    /\ app.response_tab = "Body"
    /\ app.response_scroll = 65535
    /\ app.headers_scroll = 10

\* The fields of the main view that C31 names.
MainViewFields(a) ==
    <<a.selected, a.selected_variable, a.filter_text, a.response_scroll,
      a.headers_scroll, a.response_tab, a.request_details_scroll,
      a.last_response, a.history>>

\* The selection and the scroll offset of the history view.
HistoryViewFields(a) == <<a.selected_history, a.history_detail_scroll>>

\* C31: a key that enters the history view, is handled in it, or leaves it
\* changes none of selected, selected_variable, filter text, response_scroll,
\* headers_scroll, response_tab, request_details_scroll, last_response and
\* history; a key handled in the main view changes neither selected_history
\* nor history_detail_scroll.
C31_HistoryViewIndependent ==
    \A key \in Keys :
        LET after == Press(app, key)
        IN  /\ (app.history_view_active \/ after.history_view_active)
                  => MainViewFields(after) = MainViewFields(app)
            /\ (~app.history_view_active /\ ~after.history_view_active)
                  => HistoryViewFields(after) = HistoryViewFields(app)

\* The history view stands on the older of two entries, on its detail panel,
\* while the main view has its second request selected and its headers
\* scrolled.
C31_Witness ==
    /\ app.history_view_active
    /\ app.focus = "HistoryDetail"
    /\ Len(app.history) = 2
    /\ app.selected_history = 0
    /\ app.selected = 1
    /\ app.response_tab = "Headers"
    /\ app.headers_scroll = 1

\* C32: with a transport whose call returns, every state with loading set
\* and n entries in history leads to a state with loading clear and n + 1
\* entries; the step in which the transport returns clears loading and adds
\* the entry.
C32_ExecutionCompletes ==
    /\ \A n \in 0..MaxHistory :
          (app.loading /\ Len(app.history) = n)
              ~> (~app.loading /\ Len(app.history) = n + 1)
    /\ [][net_replies' # net_replies =>
             /\ ~app'.loading
             /\ Len(app'.history) = Len(app.history) + 1]_vars

\* Two executions are over, the second with an error of the transport.
C32_Witness ==
    /\ ~app.loading
    /\ Len(app.history) = 2
    /\ Len(net_replies) = 2
    /\ net_replies[1].ok
    /\ ~net_replies[2].ok
    /\ net_pending = {}

\* C33: the fold step of an execution in history view leaves selected_history
\* at the index of the newest entry; outside history view it leaves
\* selected_history as it was.
C33_SelectionAfterExecution ==
    [][FoldStep =>
          IF app.history_view_active
          THEN app'.selected_history = Len(app'.history) - 1
          ELSE app'.selected_history = app.selected_history]_vars

\* The fold of an execution of the history entry has just happened in history
\* view (the key typed meanwhile still waits): the new entry repeats the
\* request of the first and is selected.
C33_Witness ==
    /\ pc = "poll"
    /\ key_queue # <<>>
    /\ app.history_view_active
    /\ Len(app.history) = 2
    /\ app.history[2].request = app.history[1].request
    /\ app.selected_history = 1

\* The step in which execute_request starts and reaches its await.
BeginStep == pc = "poll" /\ pc' = "await"

\* What an execution leaves alone.
ExecutionFrame(a) ==
    <<a.selected, a.focus, a.filter_text, a.filter_active, a.response_tab,
      a.headers_scroll, a.request_details_scroll, a.selected_variable,
      a.history_detail_scroll, a.history_view_active, a.should_quit,
      a.http_file>>

\* C34: while the transport call is out, loading is set and response_scroll
\* is 0; the step that starts an execution changes nothing but loading and
\* response_scroll, and the fold changes nothing but loading, history,
\* last_response and selected_history: selected, focus, the filter,
\* response_tab, headers_scroll, request_details_scroll, selected_variable
\* and history_detail_scroll are after the fold what they were before the
\* execute command.
C34_ExecutionFrame ==
    [][/\ pc' = "await" => app'.loading /\ app'.response_scroll = 0
       /\ BeginStep =>
             /\ ExecutionFrame(app') = ExecutionFrame(app)
             /\ <<app'.history, app'.last_response, app'.selected_history>>
                  = <<app.history, app.last_response, app.selected_history>>
       /\ FoldStep =>
             /\ ExecutionFrame(app') = ExecutionFrame(app)
             /\ app'.response_scroll = 0
             /\ ~app'.loading]_vars

\* An execution started from the filter, with the second request selected
\* and the headers scrolled, has just been folded.
C34_Witness ==
    /\ pc = "poll"
    /\ key_queue # <<>>
    /\ ~app.loading
    /\ Len(app.history) = 1
    /\ app.filter_active
    /\ app.selected = 1
    /\ app.response_tab = "Headers"
    /\ app.headers_scroll = 1

\* C35: history_view_active holds exactly when focus is HistoryList or
\* HistoryDetail, and focus is always one of the six regions.
C35_HistoryViewIsHistoryFocus ==
    /\ app.focus \in {"RequestList", "ResponseBody", "RequestDetails",
                      "VariablesList", "HistoryList", "HistoryDetail"}
    /\ app.history_view_active
          <=> app.focus \in {"HistoryList", "HistoryDetail"}

\* The history view was entered from the variables panel with one entry in
\* the history, and Tab has moved to its detail panel.
C35_Witness ==
    /\ app.history_view_active
    /\ app.focus = "HistoryDetail"
    /\ Len(app.history) = 1
    /\ app.selected_variable = 1
    /\ app.history_detail_scroll = 1

\* C36: filter_active and history_view_active never hold together; with the
\* filter active no key enters the history view, and in the history view no
\* key activates the filter.
C36_FilterExcludesHistoryView ==
    /\ ~(app.filter_active /\ app.history_view_active)
    /\ \A key \in Keys :
          /\ app.filter_active => ~Press(app, key).history_view_active
          /\ app.history_view_active => ~Press(app, key).filter_active

\* H was pressed with the filter active: the filter took it as text.
C36_Witness ==
    /\ app.filter_active
    /\ app.filter_text = <<"H">>
    /\ ~app.history_view_active
    /\ app.focus = "RequestList"

\* The states in which Enter has nothing to execute: the request list with
\* an empty filtered view, the history list with an empty history.
NothingToExecute(a) ==
    \/ /\ ~a.history_view_active
       /\ a.focus = "RequestList"
       /\ VisibleCount(a) = 0
    \/ /\ a.history_view_active
       /\ a.focus = "HistoryList"
       /\ a.history = <<>>

\* C39: a turn of the loop taken where Enter has nothing to execute starts
\* no transport call, does not set loading, adds no history entry and leaves
\* last_response and response_scroll as they were.
C39_NothingToExecute ==
    [][(pc = "poll" /\ NothingToExecute(app)) =>
          /\ pc' # "await"
          /\ net_sent' = net_sent
          /\ net_pending' = net_pending
          /\ in_flight' = in_flight
          /\ ~app'.loading
          /\ app'.history = app.history
          /\ app'.last_response = app.last_response
          /\ app'.response_scroll = app.response_scroll]_vars

\* After an execution the filter shows no request, the response is scrolled,
\* and the loop has taken a turn here without a key waiting.
C39_Witness ==
    /\ pc = "poll"
    /\ key_queue = <<>>
    /\ app.filter_active
    /\ app.focus = "RequestList"
    /\ app.filter_text = <<"j">>
    /\ Len(app.history) = 1
    /\ app.last_response # None
    /\ app.response_scroll = 1
    /\ app.request_details_visible_height = MaxAreaHeight

\* C37: a step that changes selected_history leaves history_detail_scroll
\* at 0.
C37_SelectionChangeResetsScroll ==
    [][app'.selected_history # app.selected_history
          => app'.history_detail_scroll = 0]_vars

(***************************************************************************)
(* Properties of parse_content.  The kinds of the lines of Lines are       *)
(* written down here from the file format, line by line, and not computed  *)
(* by the parser.                                                          *)
(***************************************************************************)
VariableLines == {LVarA1, LVarA2}
SeparatorLines == {LSepN, LSep}
CommentLines == {LComment, LSlash}
BlankLines == {LBlank}
RequestLines == {c.line : c \in {d \in RequestLineCases : d.request # None}}
\* LTabReq has a colon and no space before it: among the headers of an open
\* request it is a header line.
HeaderLines == {LHdr1, LHdr2, LHdrk, LTabReq}
OtherLines ==
    (HeaderLines \ RequestLines) \cup {LBadHdr, LBodyWs} \cup
    {c.line : c \in {d \in RequestLineCases : d.request = None}}

ParseDone == parse_pc = "done"

\* The requests parse_content has returned.
ParsedRequests ==
    IF parse_out # None /\ parse_out[1].ok THEN parse_out[1].val.requests
    ELSE <<>>

RECURSIVE SortedSeq(_)
SortedSeq(S) ==
    IF S = {} THEN <<>>
    ELSE LET m == CHOOSE x \in S : \A y \in S : x <= y
         IN  <<m>> \o SortedSeq(S \ {m})

SepPositions(f) == {i \in 1..Len(f) : f[i] \in SeparatorLines}

\* The last separator line before line i, 0 when there is none.
LastSepBefore(f, i) ==
    LET before == {j \in SepPositions(f) : j < i}
    IN  IF before = {} THEN 0
        ELSE CHOOSE j \in before : \A k \in before : k <= j

\* The request the single line `line` stands for.
RequestOf(line) ==
    (CHOOSE c \in RequestLineCases : c.line = line).request[1]

SameRequestLine(req, line) ==
    /\ req.method = RequestOf(line).method
    /\ req.url = RequestOf(line).url

\* A step of the loop that takes a line of the set `kind`.
TakesLine(kind) ==
    /\ parse_pc = "loop"
    /\ line_no' = line_no + 1
    /\ content[line_no + 1] \in kind

\* C11: parse_content never returns an error, and a line that is no
\* variable, separator, comment, blank or request line and comes while no
\* request is open is dropped: it adds no request, opens none, and raises no
\* error.
C11_NeverFails ==
    [][ /\ parse_pc' = "done" => parse_out'[1].ok
        /\ (TakesLine(OtherLines) /\ parser.current_request = None)
              => /\ parser'.requests = parser.requests
                 /\ parser'.current_request = None
                 /\ parser'.error = None
                 /\ parse_pc' = "loop" ]_vars

\* A file of two lines that open no request has been parsed into no request.
C11_Witness ==
    /\ ParseDone
    /\ content = <<LJunk, LHdr1>>
    /\ parse_out[1].ok
    /\ parse_out[1].val.requests = <<>>

\* Every separator is followed by a request line before the next separator.
WellSeparated(f) ==
    \A s \in SepPositions(f) :
        \E i \in (s + 1)..Len(f) :
            /\ f[i] \in RequestLines
            /\ \A j \in (s + 1)..i : f[j] \notin SeparatorLines

\* The first request line after line s.
RequestAfter(f, s) ==
    CHOOSE i \in (s + 1)..Len(f) :
        /\ f[i] \in RequestLines
        /\ \A j \in (s + 1)..(i - 1) : f[j] \notin RequestLines

\* The request lines after the separators, in file order.
SeparatedRequests(f) ==
    LET seps == SortedSeq(SepPositions(f))
    IN  [k \in 1..Len(seps) |-> RequestAfter(f, seps[k])]

\* The request line before the first separator, if there is one.
LeadingRequest(f) ==
    LET lead == {i \in 1..Len(f) :
                    f[i] \in RequestLines /\ LastSepBefore(f, i) = 0}
    IN  IF lead = {} THEN <<>> ELSE <<SortedSeq(lead)[1]>>

RequestsAre(reqs, f, positions) ==
    /\ Len(reqs) = Len(positions)
    /\ \A k \in 1..Len(positions) : SameRequestLine(reqs[k], f[positions[k]])

\* C12 as stated: a file with N separators, each followed by a request line
\* before the next, parses into exactly N requests, the k-th being the one
\* of the first request line after the k-th separator.
C12_OneRequestPerSeparator ==
    (ParseDone /\ WellSeparated(content))
        => RequestsAre(ParsedRequests, content, SeparatedRequests(content))

\* C12 amended: such a file parses into the request of the first request
\* line before the first separator, if there is one, followed by the N
\* requests of the separators in file order.
C12_RequestsInFileOrder ==
    (ParseDone /\ WellSeparated(content))
        => RequestsAre(ParsedRequests, content,
                       LeadingRequest(content) \o SeparatedRequests(content))

\* A file with a request before its first separator and a separator with
\* its request has been parsed.
C12_Witness ==
    /\ ParseDone
    /\ WellSeparated(content)
    /\ Cardinality(SepPositions(content)) = 1
    /\ LeadingRequest(content) # <<>>
    /\ Len(ParsedRequests) = 2

\* The request lines that open a request: the first of the file or after a
\* separator.
OpeningLines(f) ==
    SortedSeq({i \in 1..Len(f) :
                  /\ f[i] \in RequestLines
                  /\ \A j \in (LastSepBefore(f, i) + 1)..(i - 1) :
                         f[j] \notin RequestLines})

\* The name a separator line gives.
SepName(line) == IF line = LSepN THEN Some(<<"N">>) ELSE None

NearestName(f, i) ==
    LET s == LastSepBefore(f, i)
    IN  IF s = 0 THEN None ELSE SepName(f[s])

\* C13: every parsed request carries the name of its nearest preceding
\* separator line, none when that line gives no name or there is no such
\* line, whatever lines lie between the separator and the request line.
C13_NameOfNearestSeparator ==
    ParseDone =>
        LET opening == OpeningLines(content)
        IN  \A k \in 1..Len(ParsedRequests) :
                k <= Len(opening) =>
                    ParsedRequests[k].name = NearestName(content, opening[k])

\* C14: a file of the single line `METHOD URL`, METHOD one of the seven
\* methods in any letter case, parses into exactly one request with that
\* method, the second token as URL, no name, no headers and no body, further
\* tokens ignored; a single line whose first token is no method, or that has
\* fewer than two tokens, gives no request.
C14_SingleRequestLine ==
    (ParseDone /\ Len(content) = 1
               /\ \E c \in RequestLineCases : c.line = content[1])
        => LET c == CHOOSE d \in RequestLineCases : d.line = content[1]
           IN  /\ parse_out[1].ok
               /\ IF c.request = None THEN ParsedRequests = <<>>
                  ELSE ParsedRequests =
                           <<Request(None, c.request[1].method,
                                     c.request[1].url, NoHeaders, None)>>

\* The file of the line `Options u v` has been parsed into one request.
C14_Witness ==
    /\ ParseDone
    /\ content = <<<<"O", "p", "t", "i", "o", "n", "s", " ", "u", " ", "v">>>>
    /\ Len(ParsedRequests) = 1
    /\ ParsedRequests[1].method = "OPTIONS"

\* The key and the value a header line gives.
HeaderOf(line) ==
    CASE line = LHdr1 -> <<<<"K">>, <<"1">>>>
      [] line = LHdr2 -> <<<<"K">>, <<"2">>>>
      [] line = LHdrk -> <<<<"k">>, <<"3">>>>
      [] line = LTabReq -> <<<<"G", "E", "T", "\t", "u">>, <<"1">>>>

\* The header lines of the request opened by line i - 1: the header lines
\* from line i on, up to the first line that is neither a header, a comment
\* nor a variable line.
RECURSIVE HeaderRun(_, _)
HeaderRun(f, i) ==
    IF i > Len(f) THEN {}
    ELSE IF f[i] \in VariableLines \cup CommentLines THEN HeaderRun(f, i + 1)
    ELSE IF f[i] \in HeaderLines THEN {i} \cup HeaderRun(f, i + 1)
    ELSE {}

\* Each key of the run with the value of its last line.
LastValues(f, run) ==
    [key \in {HeaderOf(f[i])[1] : i \in run} |->
        LET last == CHOOSE i \in run :
                        /\ HeaderOf(f[i])[1] = key
                        /\ \A j \in run : HeaderOf(f[j])[1] = key => j <= i
        IN  HeaderOf(f[last])[2]]

\* C15: the header map of every request has, for each key of its own header
\* section, exactly one entry, with the value of the last occurrence of the
\* key, and no other entry.
C15_LastHeaderWins ==
    ParseDone =>
        LET opening == OpeningLines(content)
        IN  \A k \in 1..Len(ParsedRequests) :
                k <= Len(opening) =>
                    ParsedRequests[k].headers =
                        LastValues(content, HeaderRun(content, opening[k] + 1))

\* A request with the key K twice, a comment between, has been parsed.
C15_Witness ==
    /\ ParseDone
    /\ content = <<LGet, LHdr1, LComment, LHdr2>>
    /\ Len(ParsedRequests) = 1
    /\ ParsedRequests[1].headers = [key \in {<<"K">>} |-> <<"2">>]

\* The name and the value a variable line gives.
VariableOf(line) ==
    CASE line = LVarA1 -> <<<<"a">>, <<"1">>>>
      [] line = LVarA2 -> <<<<"a">>, <<"2">>>>

\* Each name assigned in the file with the value of its last assignment.
LastAssignments(f) ==
    LET at == {i \in 1..Len(f) : f[i] \in VariableLines}
    IN  [name \in {VariableOf(f[i])[1] : i \in at} |->
            LET last == CHOOSE i \in at :
                            /\ VariableOf(f[i])[1] = name
                            /\ \A j \in at :
                                   VariableOf(f[j])[1] = name => j <= i
            IN  VariableOf(f[last])[2]]

\* C16: a variable line is recorded wherever it stands, the returned table
\* maps each name to the value of its last assignment in the file, and the
\* step that takes a variable line changes neither the requests nor the
\* open request (its headers, body lines and headers_done).
C16_VariablesEverywhere ==
    [][ /\ TakesLine(VariableLines)
           => /\ parser'.requests = parser.requests
              /\ parser'.current_request = parser.current_request
              /\ LET v == VariableOf(content[line_no + 1])
                 IN  /\ v[1] \in DOMAIN parser'.variables
                     /\ parser'.variables[v[1]] = v[2]
        /\ parse_pc' = "done"
           => /\ parse_out'[1].ok
              /\ parse_out'[1].val.variables = LastAssignments(content) ]_vars

\* A file that assigns a among the headers of a request and again after them
\* has been parsed.
C16_Witness ==
    /\ ParseDone
    /\ content = <<LGet, LVarA1, LHdr1, LVarA2>>
    /\ parse_out[1].val.variables = [name \in {<<"a">>} |-> <<"2">>]
    /\ ParsedRequests[1].headers = [key \in {<<"K">>} |-> <<"1">>]
    /\ ParsedRequests[1].body = None

\* The body lines of the request whose header section ends before line i:
\* the lines from i to the next separator, comments and variable lines left
\* out.
RECURSIVE BodyRun(_, _)
BodyRun(f, i) ==
    IF i > Len(f) \/ f[i] \in SeparatorLines THEN <<>>
    ELSE IF f[i] \in VariableLines \cup CommentLines THEN BodyRun(f, i + 1)
    ELSE <<f[i]>> \o BodyRun(f, i + 1)

\* The lines without the whitespace at their ends.
EndsTrimmed(ls) == [i \in 1..Len(ls) |-> trim_end(ls[i])]

\* The body lines of the request opened by line i - 1: a blank line ends the
\* headers and is no body line, any other line that is no header ends them
\* and is the first body line.
RECURSIVE BodyRegion(_, _)
BodyRegion(f, i) ==
    IF i > Len(f) \/ f[i] \in SeparatorLines THEN <<>>
    ELSE IF f[i] \in VariableLines \cup CommentLines \cup HeaderLines
    THEN BodyRegion(f, i + 1)
    ELSE IF f[i] \in BlankLines THEN BodyRun(f, i + 1)
    ELSE BodyRun(f, i)

RECURSIVE DropLeadingBlank(_)
DropLeadingBlank(ls) ==
    IF ls = <<>> \/ ls[1] \notin BlankLines THEN ls
    ELSE DropLeadingBlank(Tail(ls))

RECURSIVE DropTrailingBlank(_)
DropTrailingBlank(ls) ==
    IF ls = <<>> \/ ls[Len(ls)] \notin BlankLines THEN ls
    ELSE DropTrailingBlank(SubSeq(ls, 1, Len(ls) - 1))

\* The text of the lines between the first and the last line that is not
\* blank, without the whitespace before the first and after the last.
BodyText(ls) ==
    LET core == DropTrailingBlank(DropLeadingBlank(ls))
        n == Len(core)
    IN  IF core = <<>> THEN None
        ELSE Some(join([i \in 1..n |->
                          IF n = 1 THEN trim(core[1])
                          ELSE IF i = 1 THEN trim_start(core[1])
                          ELSE IF i = n THEN trim_end(core[n])
                          ELSE core[i]]))

\* C17: the body of every parsed request is absent or a non-empty text that
\* neither starts nor ends with whitespace; it is absent when only blank
\* lines (or none) follow the headers, and otherwise it is the body lines
\* from the first to the last non-blank one, without the whitespace at the
\* end of each, the blank lines between them kept.
C17_BodyTrimmed ==
    ParseDone =>
        LET opening == OpeningLines(content)
        IN  \A k \in 1..Len(ParsedRequests) :
                LET body == ParsedRequests[k].body
                IN  /\ body # None
                       => /\ body[1] # <<>>
                          /\ body[1][1] \notin Whitespace
                          /\ body[1][Len(body[1])] \notin Whitespace
                    /\ k <= Len(opening)
                       => body = BodyText(EndsTrimmed(
                                     BodyRegion(content, opening[k] + 1)))

\* A request whose body has a blank line between two lines has been parsed.
C17_Witness ==
    /\ ParseDone
    /\ content = <<LPost, LJunk, LBlank, LJunk>>
    /\ ParsedRequests[1].body = Some(<<"j", "\n", "\n", " ", "j">>)

\* A step of the loop that takes a line of the set `kind` while a request is
\* open.
TakesLineOfRequest(kind) ==
    TakesLine(kind) /\ parser.current_request # None

\* C27: while a request collects headers a blank line ends the headers and
\* is no body line, a header line is added to the headers, and any other
\* line ends the headers and is the first body line; once the headers are
\* done they stay done and no line is added to them, header lines included.
C27_HeadersThenBody ==
    [][ TakesLineOfRequest(BlankLines \cup HeaderLines \cup OtherLines
                               \cup RequestLines)
          => /\ parser'.current_request # None
             /\ LET line == content[line_no + 1]
                    old == parser.current_request[1]
                    new == parser'.current_request[1]
                IN  IF old.headers_done
                    THEN new.headers_done /\ new.headers = old.headers
                    ELSE IF line \in BlankLines
                    THEN /\ new.headers_done
                         /\ new.headers = old.headers
                         /\ new.body_lines = <<>>
                    ELSE IF line \in HeaderLines
                    THEN /\ ~new.headers_done
                         /\ new.headers = Append(old.headers, HeaderOf(line))
                         /\ new.body_lines = <<>>
                    ELSE /\ new.headers_done
                         /\ new.headers = old.headers
                         /\ Len(new.body_lines) = 1
                         /\ trim_end(new.body_lines[1]) = trim_end(line) ]_vars

\* A request whose headers end at a line with a space in its key, a header
\* line after it, has been parsed: both lines are its body.
C27_Witness ==
    /\ ParseDone
    /\ content = <<LPost, LHdr1, LBadHdr, LHdr1>>
    /\ ParsedRequests[1].headers = [key \in {<<"K">>} |-> <<"1">>]
    /\ ParsedRequests[1].body = Some(LBadHdr \o <<"\n">> \o LHdr1)

\* C28: the step that takes a comment line changes nothing of the parser:
\* no request is opened, closed or pushed, no header or body line is added,
\* headers_done and the pending name stay.
C28_CommentsIgnored ==
    [][ TakesLine(CommentLines)
          => /\ parser' = parser
             /\ parse_pc' = "loop" ]_vars

\* A request with a `//` line between two body lines has been parsed.
C28_Witness ==
    /\ ParseDone
    /\ content = <<LPost, LBodyWs, LSlash, LHdr1>>
    /\ ParsedRequests[1].headers = NoHeaders
    /\ ParsedRequests[1].body = Some(<<"j", "\n">> \o LHdr1)

\* The steps that close a request: a separator line, or the end of input.
ClosingStep ==
    \/ TakesLine(SeparatorLines)
    \/ parse_pc = "loop" /\ line_no = Len(content) /\ parse_pc' = "done"

\* The open request is the one that was open, with the same request line.
SameOpenRequest ==
    /\ parser'.current_request # None
    /\ parser'.current_request[1].name = parser.current_request[1].name
    /\ parser'.current_request[1].method = parser.current_request[1].method
    /\ parser'.current_request[1].url = parser.current_request[1].url

\* The line is taken as a body line of the open request, which ends the
\* collection of headers if it was going on.
TakenAsBodyLine(line) ==
    LET old == parser.current_request[1]
        new == parser'.current_request[1]
    IN  /\ new.headers_done
        /\ new.headers = old.headers
        /\ Len(new.body_lines) = Len(old.body_lines) + 1
        /\ SubSeq(new.body_lines, 1, Len(old.body_lines)) = old.body_lines
        /\ trim_end(new.body_lines[Len(new.body_lines)]) = trim_end(line)

\* The line is taken as a header of the open request, which goes on
\* collecting headers.
TakenAsHeader(line) ==
    LET old == parser.current_request[1]
        new == parser'.current_request[1]
    IN  /\ ~old.headers_done
        /\ ~new.headers_done
        /\ new.headers = Append(old.headers, HeaderOf(line))
        /\ new.body_lines = old.body_lines

\* Only a closing step adds a request or leaves none open where one was, and
\* parse_content returns as many requests as the file has request lines read
\* while no request was open.
ClosedOnlyBySeparatorOrEnd ==
    /\ (parser'.requests # parser.requests
           \/ (parser.current_request # None
                  /\ parser'.current_request = None))
          => ClosingStep
    /\ parse_pc' = "done"
          => /\ parse_out'[1].ok
             /\ Len(parse_out'[1].val.requests) = Len(OpeningLines(content))

C29_BodyLinesVerbatim ==
    ParseDone =>
        LET opening == OpeningLines(content)
        IN  \A k \in 1..Len(ParsedRequests) :
                k <= Len(opening)
                    => ParsedRequests[k].body =
                           BodyText(BodyRegion(content, opening[k] + 1))

(***************************************************************************)
(* Properties of substitute.                                               *)
(***************************************************************************)

\* text[i..e] is a token {{name}}: two opening braces, one or more word
\* characters, two closing braces.
IsTokenSpan(text, i, e) ==
    /\ 1 <= i /\ i + 4 <= e /\ e <= Len(text)
    /\ text[i] = "{" /\ text[i + 1] = "{"
    /\ text[e - 1] = "}" /\ text[e] = "}"
    /\ \A k \in (i + 2)..(e - 2) : IsWordChar(text[k])

TokenSpans(text) ==
    {s \in (1..Len(text)) \X (1..Len(text)) : IsTokenSpan(text, s[1], s[2])}

SpanName(text, s) == SubSeq(text, s[1] + 2, s[2] - 2)

UnboundSpans(text, variables) ==
    {s \in TokenSpans(text) : SpanName(text, s) \notin DOMAIN variables}

AllBound(text, variables) == UnboundSpans(text, variables) = {}

\* The text with each token of the original text replaced by its value, and
\* nothing else: values are copied out and never looked at again.
RECURSIVE ReplacedOnceFrom(_, _, _)
ReplacedOnceFrom(text, i, variables) ==
    IF i > Len(text) THEN <<>>
    ELSE LET here == {s \in TokenSpans(text) : s[1] = i}
         IN  IF here = {}
             THEN <<text[i]>> \o ReplacedOnceFrom(text, i + 1, variables)
             ELSE LET s == CHOOSE s \in here : TRUE
                  IN  variables[SpanName(text, s)]
                      \o ReplacedOnceFrom(text, s[2] + 1, variables)

ReplacedOnce(text, variables) == ReplacedOnceFrom(text, 1, variables)

SubDone == sub_pc = "done"

SubResult == sub_out[1]

\* C7: substitute is not recursive: the result is the text with each token
\* of the original text replaced by its table value, and text that a value
\* brought in is never replaced itself.
C7_NotRecursive ==
    (SubDone /\ AllBound(sub_text, sub_vars))
        => SubResult = Ok(ReplacedOnce(sub_text, sub_vars))

\* C8: substitute fails exactly when some token is unbound; the error names
\* the leftmost unbound token and carries no text; otherwise it succeeds.
C8_UndefinedVariable ==
    SubDone =>
        LET unbound == UnboundSpans(sub_text, sub_vars)
        IN  IF unbound # {}
            THEN LET first == CHOOSE s \in unbound :
                                  \A t \in unbound : s[1] <= t[1]
                 IN  SubResult = Err(UndefinedVariable(SpanName(sub_text, first)))
            ELSE SubResult.ok

\* A bound token stands left of an unbound one, the unbound one being
\* neither the first nor the last token, and the call has failed.
C8_Witness ==
    /\ SubDone
    /\ ~SubResult.ok
    /\ \E s \in TokenSpans(sub_text), t \in UnboundSpans(sub_text, sub_vars) :
           /\ s[1] < t[1]
           /\ SpanName(sub_text, s) \in DOMAIN sub_vars

\* C9: when a bound token occurs several times, every occurrence is
\* replaced by the value of its name.
C9_AllOccurrences ==
    (/\ SubDone
     /\ AllBound(sub_text, sub_vars)
     /\ \E s, t \in TokenSpans(sub_text) :
            s # t /\ SpanName(sub_text, s) = SpanName(sub_text, t))
        => SubResult = Ok(ReplacedOnce(sub_text, sub_vars))

\* C10: a text without any token is returned unchanged, whatever the table.
C10_NoTokenUnchanged ==
    (SubDone /\ TokenSpans(sub_text) = {}) => SubResult = Ok(sub_text)

\* A text with braces in it but no token (single or mismatched braces, or a
\* double-brace group around a non-word character), and a non-empty table.
C10_Witness ==
    /\ SubDone
    /\ TokenSpans(sub_text) = {}
    /\ \E i \in 1..Len(sub_text) : StartsWithAt(sub_text, i, TokDash)
    /\ \E i \in 1..Len(sub_text) : StartsWithAt(sub_text, i, <<"{", "a", "}">>)
    /\ DOMAIN sub_vars # {}
    /\ SubResult = Ok(sub_text)

(***************************************************************************)
(* Properties of get_used_variables.                                       *)
(***************************************************************************)
\* The places of a request where tokens count, in the order of the claim:
\* the URL, the header values, the body.
PlaceTexts(request) ==
    << {request.url},
       {request.headers[key] : key \in DOMAIN request.headers},
       IF request.body = None THEN {} ELSE {request.body[1]} >>

\* The occurrences of the name as a token: the place and the position.
Occurrences(request, name) ==
    UNION {UNION {{<<place, span[1]>> :
                      span \in {t \in TokenSpans(text) :
                                   SpanName(text, t) = name}} :
                     text \in PlaceTexts(request)[place]} :
              place \in 1..3}

TokenNames(request) ==
    UNION {{SpanName(text, span) : span \in TokenSpans(text)} :
              text \in UNION {PlaceTexts(request)[p] : p \in 1..3}}

Earlier(o1, o2) == o1[1] < o2[1] \/ (o1[1] = o2[1] /\ o1[2] < o2[2])

FirstOccurrence(request, name) ==
    CHOOSE o \in Occurrences(request, name) :
        \A other \in Occurrences(request, name) : other = o \/ Earlier(o, other)

\* C30: the used variables of the selected request are exactly the names
\* that occur as tokens in its URL, header values or body and are defined in
\* the table, each once with its table value, in the order of their first
\* occurrences, URL before header values before body; with no request
\* selected the list is empty.
C30_UsedVariables ==
    LET used == get_used_variables(app)
        sel == selected_request(app)
        table == app.http_file.variables
    IN  IF sel = None THEN used = <<>>
        ELSE /\ {used[i][1] : i \in 1..Len(used)}
                    = TokenNames(sel[1]) \cap DOMAIN table
             /\ \A i \in 1..Len(used) : used[i][2] = table[used[i][1]]
             /\ \A i, j \in 1..Len(used) :
                    i < j => Earlier(FirstOccurrence(sel[1], used[i][1]),
                                     FirstOccurrence(sel[1], used[j][1]))

\* On the variables panel the second of two used variables is selected: b
\* comes from the URL, a from the header and again from the body.
C30_Witness ==
    /\ app.focus = "VariablesList"
    /\ app.selected_variable = 1
    /\ key_queue = <<>>
    /\ selected_request(app) # None
    /\ selected_request(app)[1].url = TokB
    /\ selected_request(app)[1].body = Some(TokX \o TokA)
    /\ get_used_variables(app) = <<<<<<"b">>, <<"2">>>>, <<<<"a">>, <<"1">>>>>>

====
